---- MODULE Spec2Model ----
(***************************************************************************)
(* Remediation control loop: Orchestrator.run, the fix accumulator and the *)
(* failure counters (backend.2/orchestrator.py), FixAgent.apply_fixes      *)
(* (backend/agents/fix_agent.py), BugAgent.parse                           *)
(* (backend/agents/bug_agent.py), StatusManager                            *)
(* (backend/utils/status_manager.py), RuntimeEventBus                      *)
(* (backend.2/utils/event_bus.py) and the web boundary (backend.2/main.py).*)
(*                                                                         *)
(* Python dicts are functions whose DOMAIN is the set of keys present.     *)
(* Timestamps, message texts, urls and names are not modelled.             *)
(***************************************************************************)
EXTENDS Integers, Sequences, FiniteSets, TLC

VARIABLES
    \* ---- Orchestrator fields (orchestrator.py:28-33)
    status,            \* self.status   (dict: state, optional error)
    timeline,          \* self.timeline (list of {run, status})
    fixes,             \* self.fixes    (list of fix outcomes)
    fix_index,         \* self._fix_index (key -> 0-based position in fixes)
    bug_fail_counts,   \* self._bug_fail_counts (key -> count)
    \* ---- StatusManager fields (status_manager.py:10-19)
    sm_state,          \* self._state (dict)
    sm_timeline,       \* self.timeline (list of {step, status})
    \* ---- RuntimeEventBus fields (event_bus.py:10-12)
    events,            \* self._events (deque, maxlen = max_events)
    next_id,           \* self._next_id
    bus_lock,          \* self._lock: NoOwner or the thread holding it
    \* ---- ResultsManager: the persisted summary (results_manager.py:24-44)
    results,
    \* ---- locals of the execution of Orchestrator.run
    pc,                \* position of the run thread
    i,                 \* loop variable of `for i in range(retry_limit)`
    retry_limit,
    path,
    branch,
    total_failures,
    total_fixes,
    total_commits,
    failures,          \* what run_tests returned
    bugs,              \* what BugAgent.parse returned
    attemptable,       \* the records handed to apply_fixes
    new_fixes,         \* the local `fixes`: what apply_fixes returned
    exc,               \* the exception in flight, if any
    \* ---- observation of the run (history, not program state)
    fix_trace,         \* per record of the last apply_fixes call: what was attempted
    last_outcomes,     \* key -> statuses of its last (up to two) outcomes in this run
    calls,             \* per run: number of calls of each collaborator
    raised,            \* per run: some collaborator raised
    budget,            \* iterations the callers may still request
    \* ---- web boundary: POST /run-agent and its background tasks (main.py:48-62)
    tasks,             \* background tasks added and not yet started
    in_run,            \* executions of Orchestrator.run in progress
    responses,         \* answers given to start-run requests, in order
    \* ---- threads calling RuntimeEventBus.publish (event_bus.py:14-24)
    ppc,               \* publisher -> position inside publish
    pev,               \* publisher -> id of the event it built
    issued,            \* ids returned by publish, in order of return
    \* ---- one /events stream (main.py:86-114)
    rpc,               \* position of the event generator
    cursor,
    pending,           \* the list get_since returned, not yet yielded
    received,          \* ids yielded on this stream, in order
    \* ---- observation of the stream (history, not program state)
    opened,            \* the cursor and the last id appended when it was opened
    since_poll,        \* events appended since the last get_since of the stream
    overrun,           \* more than max_events were appended between two polls
    \* ---- one oracle step of apply_fixes (fix_agent.py:36-65, groq_ai_agent.py:38-89)
    groq_call,         \* the target file and what the oracle answers
    groq_out,          \* what fix_file returned, the file afterwards, the outcome
    \* ---- threads inside StatusManager and RuntimeEventBus operations
    sm_lock,           \* StatusManager._lock: NoOwner or the thread holding it
    tpc,               \* thread -> position inside its operation
    top,               \* thread -> the operation it is in
    wdone,             \* operations the run thread has completed
    access,            \* the last access to StatusManager._state / .timeline
    \* ---- TestAgent (test_agent.py:7-8) and the observation of its passes
    prepared,          \* the repository path is in self._prepared_repos
    passes,            \* per test pass of the run: what happened to its commands
    \* ---- a caller of StatusManager.snapshot (status_manager.py:66-70)
    snap               \* the dict it was returned, and what its list shares

orchVars == <<status, timeline, fixes, fix_index, bug_fail_counts>>
smVars == <<sm_state, sm_timeline>>
busVars == <<events, next_id, bus_lock>>
localVars == <<pc, i, retry_limit, path, branch, total_failures, total_fixes,
               total_commits, failures, bugs, attemptable, new_fixes, exc>>
histVars == <<fix_trace, last_outcomes, calls, raised, budget>>
webVars == <<tasks, in_run, responses>>
pubVars == <<ppc, pev, issued>>
readerVars == <<rpc, cursor, pending, received>>
streamHist == <<opened, since_poll, overrun>>
groqVars == <<groq_call, groq_out>>
lockVars == <<sm_lock, tpc, top, wdone, access>>
testVars == <<prepared, passes>>

vars == <<orchVars, smVars, busVars, results, localVars, histVars, webVars,
          pubVars, readerVars, streamHist, groqVars, testVars, snap, lockVars>>

(***************************************************************************)
(* Bounds of the model                                                     *)
(***************************************************************************)
\* iterations (plus one per run) that all runs together may request
MaxBudget == 4
\* diagnostics in one raw test output
MaxTextLen == 2
\* capacity of the event ring in the model (max_events, 2000 in the source)
max_events == 3
\* publish calls made by the publisher threads of SpecBus
MaxPublish == 5
\* start-run requests of SpecAdmit
MaxRequests == 4
\* diagnostics in one raw test output of SpecAgents
MaxAgentTextLen == 2
\* characters in a file and in an answer of the oracle
MaxContentLen == 2
\* operations the run thread starts in SpecLocks
MaxWriterOps == 3
\* iterations (plus one per run) that all runs of SpecPass may request
MaxPassBudget == 3
\* StatusManager operations the run thread starts in SpecSnap
MaxSnapOps == 3
\* iterations (plus one per run) that all runs of SpecRuns may request
MaxRunsBudget == 2

(***************************************************************************)
(* Dict helpers                                                            *)
(***************************************************************************)
EmptyDict == [x \in {} |-> 0]

Put(d, k, v) == [x \in (DOMAIN d) \cup {k} |-> IF x = k THEN v ELSE d[x]]

Pop(d, k) == [x \in (DOMAIN d) \ {k} |-> d[x]]

Get(d, k, default) == IF k \in DOMAIN d THEN d[k] ELSE default

\* a cursor that is not advanced
FirstOf(a, b) == a

Max(a, b) == IF a >= b THEN a ELSE b

(***************************************************************************)
(* RuntimeEventBus                                                         *)
(***************************************************************************)
NoOwner == "none"

\* a bus without mutual exclusion
CanAcquireAlways(lock) == TRUE

\* `with self._lock`: the lock is taken only when no thread holds it
CanAcquire(lock) == lock = NoOwner

\* a deque without maxlen: nothing is dropped
DequeAppendUnbounded(q, e) == Append(q, e)

\* deque(maxlen=max_events).append: a full deque drops its leftmost item
DequeAppend(q, e) ==
    IF Len(q) >= max_events THEN Tail(q) \o <<e>> ELSE Append(q, e)

\* the body of publish, with the lock held: the bus after one publish
PublishOne(bus) ==
    [events |-> DequeAppend(bus.events, [id |-> bus.next_id, type |-> "log"]),
     next_id |-> bus.next_id + 1]

\* n consecutive publish calls of one thread
RECURSIVE PublishN(_, _)
PublishN(bus, n) == IF n <= 0 THEN bus ELSE PublishN(PublishOne(bus), n - 1)

\* a get_since that also returns the event at the cursor
get_since_inclusive(evs, last_id) == SelectSeq(evs, LAMBDA e : e.id >= last_id)

\* get_since: the events of the ring with id > last_id, in ring order
get_since(evs, last_id) == SelectSeq(evs, LAMBDA e : e.id > last_id)

(***************************************************************************)
(* StatusManager: each operation maps <<_state, timeline>> to its successor *)
(***************************************************************************)
SM(st, tl) == [st |-> st, tl |-> tl]

sm_reset(s, total_iterations, br) ==
    SM([x \in (DOMAIN s.st) \cup {"state", "current_step", "iteration",
                                  "total_iterations", "failures",
                                  "fixes_applied", "branch_name"} |->
          CASE x = "state" -> "RUNNING"
            [] x = "current_step" -> "Starting"
            [] x = "iteration" -> 0
            [] x = "total_iterations" -> total_iterations
            [] x = "failures" -> 0
            [] x = "fixes_applied" -> 0
            [] x = "branch_name" -> br
            [] OTHER -> s.st[x]],
       << >>)

set_step(s, step, iteration) ==
    SM(Put(Put(s.st, "iteration", iteration), "current_step", step),
       Append(s.tl, [step |-> step, status |-> "In-Progress"]))

\* a mark_step that rewrites the last entry of the list instead of appending
mark_step_in_place(s, step, st) ==
    IF s.tl = << >> THEN SM(s.st, <<[step |-> step, status |-> st]>>)
    ELSE SM(s.st, [s.tl EXCEPT ![Len(s.tl)] = [step |-> step, status |-> st]])

mark_step(s, step, st) == SM(s.st, Append(s.tl, [step |-> step, status |-> st]))

update_failures(s, n) == SM(Put(s.st, "failures", n), s.tl)

update_fixes_applied(s, n) == SM(Put(s.st, "fixes_applied", n), s.tl)

set_state(s, state, error) ==
    LET st1 == Put(s.st, "state", state)
    IN  SM(IF error # "" THEN Put(st1, "error", error)
           ELSE IF "error" \in DOMAIN st1 THEN Pop(st1, "error")
           ELSE st1,
           s.tl)

set_branch(s, br) == SM(Put(s.st, "branch_name", br), s.tl)

\* snapshot(): a copy of _state with the step timeline under "timeline"
snapshot == Put(sm_state, "timeline", sm_timeline)

(***************************************************************************)
(* BugAgent.parse.  A raw diagnostic text is the sequence of its           *)
(* diagnostics; each diagnostic is what one matcher family recognises      *)
(* (family, path as its list of segments, line, message keyword), or noise *)
(* that no family recognises.                                              *)
(***************************************************************************)
FamilyOrder == <<"syntax", "indentation", "import", "type", "logic",
                 "logic_short", "lint", "pyright", "collection">>

UnknownFile == <<"<unknown>">>

\* index of the first "repo" segment that is followed by a further segment and
\* preceded by a segment (a "workspace" segment when lead says so); 0 if none
RepoAt(p, lead) ==
    LET hits == {j \in 2..(Len(p) - 1) :
                    /\ p[j] = "repo"
                    /\ (lead = "workspace" => p[j - 1] = "workspace")}
    IN  IF hits = {} THEN 0 ELSE CHOOSE j \in hits : \A k \in hits : j <= k

\* full_path.split(sep)[1]: what lies between the first and the second sep.
\* Before a second "workspace/repo/" the piece keeps its trailing slash,
\* written as a last empty segment.
SplitSecond(p, lead) ==
    LET j == RepoAt(p, lead)
        rest == SubSeq(p, j + 1, Len(p))
        j2 == RepoAt(rest, lead)
    IN  IF j2 = 0 THEN rest
        ELSE IF lead # "workspace" THEN SubSeq(rest, 1, j2 - 1)
        ELSE IF j2 = 2 THEN << >>
        ELSE SubSeq(rest, 1, j2 - 2) \o <<"">>

clean_path(p) ==
    IF RepoAt(p, "workspace") # 0 THEN SplitSecond(p, "workspace")
    ELSE IF RepoAt(p, "") # 0 THEN SplitSecond(p, "")
    ELSE p

PyrightType(msg) ==
    IF msg \in {"import", "cannot be resolved"} THEN "IMPORT"
    ELSE IF msg \in {"type", "argument of type", "cannot assign"} THEN "TYPE_ERROR"
    ELSE IF msg = "syntax" THEN "SYNTAX"
    ELSE "LOGIC"

FamilyType(d) ==
    CASE d.family = "syntax" -> "SYNTAX"
      [] d.family = "indentation" -> "INDENTATION"
      [] d.family = "import" -> "IMPORT"
      [] d.family = "type" -> "TYPE_ERROR"
      [] d.family = "logic" -> "LOGIC"
      [] d.family = "logic_short" -> "LOGIC"
      [] d.family = "lint" -> "LINTING"
      [] d.family = "pyright" -> PyrightType(d.msg)
      [] d.family = "collection" -> "IMPORT"

KeyOf(b) == <<b.file, b.bug_type, b.line>>

\* an _add_bug without the seen set
add_bug_unseen(bs, file_path, bug_type, line) ==
    Append(bs, [file |-> clean_path(file_path), bug_type |-> bug_type,
                line |-> line, status |-> "Detected"])

\* _add_bug: append a Detected record unless its key was seen
add_bug(bs, file_path, bug_type, line) ==
    LET clean == clean_path(file_path)
    IN  IF \E n \in 1..Len(bs) : KeyOf(bs[n]) = <<clean, bug_type, line>>
        THEN bs
        ELSE Append(bs, [file |-> clean, bug_type |-> bug_type, line |-> line,
                         status |-> "Detected"])

\* the matches of one family, in text order, added to bs
RECURSIVE AddFamily(_, _, _)
AddFamily(bs, text, fam) ==
    IF text = << >> THEN bs
    ELSE LET d == Head(text)
             bs1 == IF d.family = fam
                    THEN add_bug(bs, d.file, FamilyType(d),
                                 IF fam = "collection" THEN 1 ELSE d.line)
                    ELSE bs
         IN  AddFamily(bs1, Tail(text), fam)

RECURSIVE AddFamilies(_, _, _)
AddFamilies(bs, text, n) ==
    IF n > Len(FamilyOrder) THEN bs
    ELSE AddFamilies(AddFamily(bs, text, FamilyOrder[n]), text, n + 1)

\* a parse whose fallback does not test `not bugs`
parse_fallback_always(logs) ==
    IF logs.none \/ logs.text = << >> THEN << >>
    ELSE add_bug(AddFamilies(<< >>, logs.text, 1), UnknownFile, "UNKNOWN", 1)

parse(logs) ==
    IF logs.none \/ logs.text = << >> THEN << >>
    ELSE LET bs == AddFamilies(<< >>, logs.text, 1)
         IN  IF bs = << >> THEN add_bug(bs, UnknownFile, "UNKNOWN", 1) ELSE bs

(***************************************************************************)
(* FixAgent.apply_fixes.  What the file system and the repair oracle do    *)
(* for one record is its environment: exists = the target path exists,     *)
(* det = the deterministic strategy changes the file, ora = the oracle     *)
(* step reports success, err = the path cannot be opened (a directory, a   *)
(* missing parent directory, no permission, undecodable bytes).            *)
(***************************************************************************)
FileStrategyTypes == {"SYNTAX", "INDENTATION", "LINTING", "TYPE_ERROR", "LOGIC"}

FixEnv == [exists : BOOLEAN, det : BOOLEAN, ora : BOOLEAN, err : BOOLEAN]

\* the if/elif chain of fix_agent.py:23-34: is a deterministic strategy called
det_invoked(bug, env) ==
    \/ bug.bug_type \in FileStrategyTypes /\ env.exists
    \/ bug.bug_type = "IMPORT"

det_fixed(bug, env) == det_invoked(bug, env) /\ env.det

\* the strategies open their target with no handler around it
\* (fix_agent.py:74, 134, 169, 187, 225, 272): the OSError leaves apply_fixes
strategy_raises(bug, env) == det_invoked(bug, env) /\ env.err

\* position of the first record whose strategy raises; 0 when none does
FirstRaise(bs, envs) ==
    LET hits == {n \in 1..Len(bs) : strategy_raises(bs[n], envs[n])}
    IN  IF hits = {} THEN 0 ELSE CHOOSE n \in hits : \A k \in hits : n <= k

\* an oracle step that does not test `not fixed`
used_groq_always(bug, env) ==
    /\ bug.bug_type # "UNKNOWN"
    /\ bug.file # UnknownFile

\* fix_agent.py:37: the oracle is called when nothing was fixed so far
used_groq(bug, env) ==
    /\ ~det_fixed(bug, env)
    /\ bug.bug_type # "UNKNOWN"
    /\ bug.file # UnknownFile

\* GroqAIAgent.fix_file: False when the file is missing or the answer unusable
fix_file(env) == env.exists /\ env.ora

fix_fixed(bug, env) ==
    IF used_groq(bug, env) THEN fix_file(env) ELSE det_fixed(bug, env)

FixOutcome(bug, env) ==
    LET fixed == fix_fixed(bug, env)
    IN  [file |-> bug.file, bug_type |-> bug.bug_type, line |-> bug.line,
         status |-> IF fixed THEN "Fixed" ELSE "Failed",
         commit_message |-> IF fixed THEN <<"[AI-AGENT] Fix", bug.bug_type, "error">>
                            ELSE <<"[AI-AGENT] Could not auto-fix", bug.bug_type>>]

apply_fixes(bs, envs) == [n \in 1..Len(bs) |-> FixOutcome(bs[n], envs[n])]

\* the _log calls of apply_fixes for one record (fix_agent.py:37-49)
FixLogs(bug, env) ==
    IF used_groq(bug, env) THEN 2
    ELSE IF bug.bug_type = "UNKNOWN" \/ bug.file = UnknownFile THEN 1
    ELSE 0

RECURSIVE SumLogs(_, _, _)
SumLogs(bs, envs, n) ==
    IF n > Len(bs) THEN 0 ELSE FixLogs(bs[n], envs[n]) + SumLogs(bs, envs, n + 1)

\* the _log calls made before the record at position r is reached
PrefixLogs(bs, envs, r) == SumLogs(SubSeq(bs, 1, r - 1), SubSeq(envs, 1, r - 1), 1)

\* what apply_fixes attempted for each record it reached
FixTrace(bs, envs) ==
    LET r == FirstRaise(bs, envs)
    IN  [n \in 1..(IF r = 0 THEN Len(bs) ELSE r) |->
            [key |-> KeyOf(bs[n]),
             force_groq |-> Get(bs[n], "force_groq", FALSE),
             failed_attempts |-> bs[n].failed_attempts,
             det_invoked |-> det_invoked(bs[n], envs[n]),
             det_fixed |-> n # r /\ det_fixed(bs[n], envs[n]),
             used_groq |-> n # r /\ used_groq(bs[n], envs[n]),
             raised |-> n = r]]

(***************************************************************************)
(* Orchestrator helpers                                                    *)
(***************************************************************************)
max_bug_attempts == 2

\* an _upsert_fixes that appends every item and points the index at it
RECURSIVE upsert_fixes_append(_, _, _)
upsert_fixes_append(acc, items, n) ==
    IF n > Len(items) THEN acc
    ELSE upsert_fixes_append(<<Append(acc[1], items[n]),
                               Put(acc[2], KeyOf(items[n]), Len(acc[1]))>>,
                             items, n + 1)

\* _upsert_fixes over the items from position n on; acc = <<fixes, _fix_index>>
RECURSIVE upsert_fixes(_, _, _)
upsert_fixes(acc, items, n) ==
    IF n > Len(items) THEN acc
    ELSE LET item == items[n]
             key == KeyOf(item)
             fx == acc[1]
             ix == acc[2]
         IN  IF key \notin DOMAIN ix
             THEN upsert_fixes(<<Append(fx, item), Put(ix, key, Len(fx))>>, items, n + 1)
             ELSE LET existing == fx[ix[key] + 1]
                  IN  IF existing.status # "Fixed" /\ item.status = "Fixed"
                      THEN upsert_fixes(<<[fx EXCEPT ![ix[key] + 1] = item], ix>>,
                                        items, n + 1)
                      ELSE upsert_fixes(<<[fx EXCEPT ![ix[key] + 1] = item], ix>>,
                                        items, n + 1)

\* an escalation test that fires one failure late
EscalatedLate(failed_attempts) == failed_attempts > max_bug_attempts

\* orchestrator.py:126: the escalation test
Escalated(failed_attempts) == failed_attempts >= max_bug_attempts

\* orchestrator.py:123-134: queue every bug with its failure count
Queue(bs, counts) ==
    [n \in 1..Len(bs) |->
        LET failed_attempts == Get(counts, KeyOf(bs[n]), 0)
        IN  IF Escalated(failed_attempts)
            THEN Put(Put(bs[n], "force_groq", TRUE), "failed_attempts", failed_attempts)
            ELSE Put(bs[n], "failed_attempts", failed_attempts)]

\* a counting loop that never clears a counter
RECURSIVE CountOutcomesNoClear(_, _, _)
CountOutcomesNoClear(counts, items, n) ==
    IF n > Len(items) THEN counts
    ELSE LET key == KeyOf(items[n])
         IN  CountOutcomesNoClear(Put(counts, key, Get(counts, key, 0) + 1),
                                  items, n + 1)

\* orchestrator.py:139-144: clear the counter on Fixed, increment it otherwise
RECURSIVE CountOutcomes(_, _, _)
CountOutcomes(counts, items, n) ==
    IF n > Len(items) THEN counts
    ELSE LET key == KeyOf(items[n])
         IN  CountOutcomes(IF items[n].status = "Fixed" THEN Pop(counts, key)
                           ELSE Put(counts, key, Get(counts, key, 0) + 1),
                           items, n + 1)

NumFixed(items) == Cardinality({n \in 1..Len(items) : items[n].status = "Fixed"})

(***************************************************************************)
(* Inputs of the model                                                     *)
(***************************************************************************)
D1 == [family |-> "import", file |-> <<"workspace", "repo", "pkg", "mod.py">>,
       line |-> 1, msg |-> ""]

D2 == [family |-> "logic", file |-> <<"app.py">>, line |-> 2, msg |-> ""]

Noise == [family |-> "noise", file |-> << >>, line |-> 0, msg |-> ""]

Diagnostics == {D1, D2, Noise}

K1 == <<<<"pkg", "mod.py">>, "IMPORT", 1>>

K2 == <<<<"app.py">>, "LOGIC", 2>>

KU == <<UnknownFile, "UNKNOWN", 1>>

RECURSIVE SeqsUpTo(_, _)
SeqsUpTo(S, n) ==
    IF n <= 0 THEN {<< >>}
    ELSE LET shorter == SeqsUpTo(S, n - 1)
         IN  shorter \cup {Append(t, d) : t \in shorter, d \in S}

\* run_tests returns None or a text
NoneResult == [none |-> TRUE, text |-> << >>]

TestResults ==
    {NoneResult} \cup {[none |-> FALSE, text |-> t] : t \in SeqsUpTo(Diagnostics, MaxTextLen)}

\* Python's `not failures`
IsFalsy(r) == r.none \/ r.text = << >>

NoExc == [kind |-> "None", msg |-> ""]

\* what a collaborator may raise: an Exception with an empty or a non-empty
\* message, or a BaseException that `except Exception` does not catch
Raisable == {[kind |-> "Exception", msg |-> ""],
             [kind |-> "Exception", msg |-> "boom"],
             [kind |-> "BaseException", msg |-> "exit"]}

\* what open() raises: an OSError or a UnicodeDecodeError, with a message
StrategyErrors == {[kind |-> "Exception", msg |-> "boom"]}

BranchName == "TEAM_LEADER_AI_FIX"

RepoPath == "workspace/repo"

Publishers == {"p1", "p2"}

\* the stream before it was opened
NotOpened == [cursor |-> 0, tail |-> 0]

\* the run thread and the request-handling contexts
Readers == {"r1", "r2"}

Threads == {"run"} \cup Readers

NoGroqCall == [exists |-> FALSE, py |-> FALSE, source |-> << >>,
               resp |-> [kind |-> "none", text |-> << >>]]

NoGroqOut == [called |-> FALSE, fixed |-> FALSE, content |-> << >>, status |-> ""]

\* no snapshot taken.  st and tl are the copies dict(self._state) and
\* list(self.timeline); tl_seen is the step timeline as it was when st was
\* copied; shared says that the elements of tl are the entry objects of the
\* list the StatusManager holds now
NoSnap == [held |-> FALSE, st |-> EmptyDict, tl |-> << >>, tl_seen |-> << >>,
           shared |-> FALSE]

NoAccess == [thread |-> "none", op |-> "none", locked |-> TRUE, live |-> FALSE]

\* calls of the collaborators in the current run; falsy counts the test
\* passes that returned None or an empty text
NoCalls == [run_tests |-> 0, falsy |-> 0, parse |-> 0, apply_fixes |-> 0,
            commit_push |-> 0, generate |-> 0, archive_repo |-> 0,
            cleanup_repo |-> 0, cleanup_raised |-> 0]

(***************************************************************************)
(* Initial state: the module-level Orchestrator() of main.py:15            *)
(***************************************************************************)
Init ==
    /\ status = [state |-> "IDLE"]
    /\ timeline = << >>
    /\ fixes = << >>
    /\ fix_index = EmptyDict
    /\ bug_fail_counts = EmptyDict
    /\ sm_state = [state |-> "IDLE", current_step |-> "", iteration |-> 0,
                   total_iterations |-> 0, failures |-> 0, fixes_applied |-> 0,
                   branch_name |-> ""]
    /\ sm_timeline = << >>
    /\ events = << >>
    /\ next_id = 1
    /\ bus_lock = NoOwner
    /\ results = EmptyDict
    /\ pc = "idle"
    /\ i = 0
    /\ retry_limit = 0
    /\ path = ""
    /\ branch = ""
    /\ total_failures = 0
    /\ total_fixes = 0
    /\ total_commits = 0
    /\ failures = NoneResult
    /\ bugs = << >>
    /\ attemptable = << >>
    /\ new_fixes = << >>
    /\ exc = NoExc
    /\ fix_trace = << >>
    /\ last_outcomes = EmptyDict
    /\ calls = NoCalls
    /\ raised = FALSE
    /\ budget = MaxBudget
    /\ tasks = 0
    /\ in_run = 0
    /\ responses = << >>
    /\ ppc = [p \in Publishers |-> "idle"]
    /\ pev = [p \in Publishers |-> 0]
    /\ issued = << >>
    /\ rpc = "closed"
    /\ cursor = 0
    /\ pending = << >>
    /\ received = << >>
    /\ opened = NotOpened
    /\ since_poll = 0
    /\ overrun = FALSE
    /\ groq_call = NoGroqCall
    /\ groq_out = NoGroqOut
    /\ sm_lock = NoOwner
    /\ tpc = [t \in Threads |-> "idle"]
    /\ top = [t \in Threads |-> "none"]
    /\ wdone = 0
    /\ access = NoAccess
    /\ prepared = FALSE
    /\ passes = << >>
    /\ snap = NoSnap

(***************************************************************************)
(* Orchestrator.run, one action per collaborator call of the run thread    *)
(***************************************************************************)
CurSM == SM(sm_state, sm_timeline)

SetSM(s) == sm_state' = s.st /\ sm_timeline' = s.tl

\* n calls of self._log: each publishes one event (orchestrator.py:250-252)
Logged(n) ==
    LET b == PublishN([events |-> events, next_id |-> next_id], n)
    IN  /\ CanAcquire(bus_lock)
        /\ events' = b.events
        /\ next_id' = b.next_id
        /\ bus_lock' = bus_lock

\* An exception leaves the try block (orchestrator.py:201-210): `except
\* Exception` records it; anything else goes on to the finally block in flight
Raise(e) ==
    /\ raised' = TRUE
    /\ pc' = "finally"
    /\ IF e.kind = "Exception"
       THEN /\ status' = [state |-> "FAILED", error |-> e.msg]
            /\ exc' = NoExc
       ELSE /\ status' = status
            /\ exc' = e

\* the StatusManager after the handler of e ran on s
Handled(s, e) == IF e.kind = "Exception" THEN set_state(s, "FAILED", e.msg) ELSE s

NoRaise == UNCHANGED <<status, exc, raised>>

Called(name) == calls' = [calls EXCEPT ![name] = @ + 1]

\* a loop that tests before it looks at the budget
LoopNextAtLeastOnce(n) == IF n = 0 \/ n < retry_limit THEN "test" ELSE "finish"

\* a loop that runs one iteration more than asked
LoopNextLong(n) == IF n <= retry_limit THEN "test" ELSE "finish"

\* a loop that stops one iteration early
LoopNextShort(n) == IF n < retry_limit - 1 THEN "test" ELSE "finish"

\* for i in range(retry_limit): the next position of the run thread
LoopNext(n) == IF n < retry_limit THEN "test" ELSE "finish"

\* a run that starts with a new event bus
BusAfterEntryNew(bus) == [events |-> << >>, next_id |-> 1]

\* the event bus over the entry of run: it is made once, by the constructor
\* (orchestrator.py:19), and run assigns neither it nor its fields
BusAfterEntry(bus) == bus

\* an entry of run that keeps the timeline of the run before
RunEntryKeepsTimeline(rl) ==
    /\ timeline' = timeline
    /\ fixes' = << >>
    /\ fix_index' = EmptyDict
    /\ bug_fail_counts' = EmptyDict
    /\ SetSM(sm_reset(CurSM, rl, ""))
    /\ status' = [state |-> "RUNNING"]

\* orchestrator.py:53-65
RunEntry(rl) ==
    /\ timeline' = << >>
    /\ fixes' = << >>
    /\ fix_index' = EmptyDict
    /\ bug_fail_counts' = EmptyDict
    /\ SetSM(sm_reset(CurSM, rl, ""))
    /\ status' = [state |-> "RUNNING"]

\* a call of Orchestrator.run while no other call is in progress; retry_limit
\* is any int (main.py:45), a negative one being charged as 0
RunStart ==
    /\ pc \in {"idle", "returned"}
    /\ \E rl \in -1..(budget - 1) :
        /\ budget' = budget - (Max(rl, 0) + 1)
        /\ retry_limit' = rl
        /\ RunEntry(rl)
    /\ pc' = "clone"
    /\ i' = 0
    /\ path' = ""
    /\ branch' = ""
    /\ total_failures' = 0
    /\ total_fixes' = 0
    /\ total_commits' = 0
    /\ failures' = NoneResult
    /\ bugs' = << >>
    /\ attemptable' = << >>
    /\ new_fixes' = << >>
    /\ exc' = NoExc
    /\ fix_trace' = << >>
    /\ last_outcomes' = EmptyDict
    /\ calls' = NoCalls
    /\ raised' = FALSE
    /\ passes' = << >>
    /\ LET b == BusAfterEntry([events |-> events, next_id |-> next_id])
       IN  events' = b.events /\ next_id' = b.next_id
    /\ UNCHANGED <<bus_lock, results, webVars, pubVars,
                   readerVars, streamHist, groqVars, prepared, lockVars, snap>>

\* orchestrator.py:74-76
Clone ==
    /\ pc = "clone"
    /\ Logged(1)
    /\ \/ /\ path' = RepoPath
          /\ SetSM(set_step(CurSM, "Cloning", 0))
          /\ pc' = "branch"
          /\ NoRaise
       \/ \E e \in Raisable :
            /\ Raise(e)
            /\ SetSM(Handled(set_step(CurSM, "Cloning", 0), e))
            /\ path' = path
    /\ UNCHANGED <<timeline, fixes, fix_index, bug_fail_counts, results, i,
                   retry_limit, branch, total_failures, total_fixes,
                   total_commits, failures, bugs, attemptable, new_fixes,
                   fix_trace, last_outcomes, calls, budget, webVars, pubVars,
                   readerVars, streamHist, groqVars, testVars, snap, lockVars>>

\* orchestrator.py:77-81
CreateBranch ==
    /\ pc = "branch"
    /\ \/ /\ branch' = BranchName
          /\ SetSM(mark_step(set_branch(CurSM, BranchName), "Clone", "Done"))
          /\ pc' = LoopNext(0)
          /\ NoRaise
       \/ \E e \in Raisable :
            /\ Raise(e)
            /\ SetSM(Handled(CurSM, e))
            /\ branch' = branch
    /\ UNCHANGED <<timeline, fixes, fix_index, bug_fail_counts, busVars, results,
                   i, retry_limit, path, total_failures, total_fixes,
                   total_commits, failures, bugs, attemptable, new_fixes,
                   fix_trace, last_outcomes, calls, budget, webVars, pubVars,
                   readerVars, streamHist, groqVars, testVars, snap, lockVars>>

\* a loop body without the break
AfterTestNoBreak(r) == "detect"

\* orchestrator.py:86-95: a falsy result ends the loop (break)
AfterTest(r) == IF IsFalsy(r) THEN "finish" ELSE "detect"

\* orchestrator.py:82-104
Test ==
    /\ pc = "test"
    /\ \/ \E r \in TestResults :
            /\ failures' = r
            /\ calls' = [calls EXCEPT !.run_tests = @ + 1,
                                      !.falsy = IF IsFalsy(r) THEN @ + 1 ELSE @]
            /\ SetSM(set_step(CurSM, "Testing", i + 1))
            /\ Logged(1)
            /\ timeline' = Append(timeline,
                                  [run |-> i + 1,
                                   status |-> IF IsFalsy(r) THEN "PASSED" ELSE "FAILED"])
            /\ pc' = AfterTest(r)
            /\ NoRaise
       \/ \E e \in Raisable :
            /\ Raise(e)
            /\ Called("run_tests")
            /\ SetSM(Handled(set_step(CurSM, "Testing", i + 1), e))
            /\ UNCHANGED <<failures, timeline, busVars>>
    /\ UNCHANGED <<fixes, fix_index, bug_fail_counts, results, i, retry_limit,
                   path, branch, total_failures, total_fixes, total_commits,
                   bugs, attemptable, new_fixes, fix_trace, last_outcomes,
                   budget, webVars, pubVars,
                   readerVars, streamHist, groqVars, testVars, snap, lockVars>>

\* orchestrator.py:106-134; the raw text is not read after this step and the
\* model forgets it
Detect ==
    /\ pc = "detect"
    /\ LET bs == parse(failures)
       IN  /\ bugs' = bs
           /\ SetSM(update_failures(set_step(CurSM, "Bug Detection", i + 1), Len(bs)))
           /\ Logged(IF bs # << >> THEN 1 + Len(bs) ELSE 2)
           /\ attemptable' = Queue(bs, bug_fail_counts)
    /\ failures' = NoneResult
    /\ Called("parse")
    /\ pc' = "fix"
    /\ UNCHANGED <<orchVars, results, i, retry_limit, path, branch, total_failures,
                   total_fixes, total_commits, new_fixes, exc, fix_trace,
                   last_outcomes, raised, budget, webVars, pubVars,
                   readerVars, streamHist, groqVars, testVars, snap, lockVars>>

\* the statuses of the last two outcomes of each key
RECURSIVE Remember(_, _, _)
Remember(h, items, n) ==
    IF n > Len(items) THEN h
    ELSE LET key == KeyOf(items[n])
             old == Get(h, key, << >>)
             new == IF Len(old) >= 2 THEN <<old[2], items[n].status>>
                    ELSE Append(old, items[n].status)
         IN  Remember(Put(h, key, new), items, n + 1)

\* orchestrator.py:136-155; an error of a strategy leaves apply_fixes at the
\* record that raised it and is caught by the handler of run
Fix ==
    /\ pc = "fix"
    /\ Called("apply_fixes")
    /\ \/ \E envs \in [1..Len(attemptable) -> FixEnv] :
            LET fx == apply_fixes(attemptable, envs)
            IN  /\ FirstRaise(attemptable, envs) = 0
                /\ new_fixes' = fx
                /\ bug_fail_counts' = CountOutcomes(bug_fail_counts, fx, 1)
                /\ Logged(SumLogs(attemptable, envs, 1) + Len(fx))
                /\ SetSM(mark_step(
                            update_fixes_applied(set_step(CurSM, "Fixing", i + 1),
                                                 NumFixed(fx)),
                            "Fixing", "Done"))
                /\ fix_trace' = FixTrace(attemptable, envs)
                /\ last_outcomes' = Remember(last_outcomes, fx, 1)
                /\ pc' = "commit"
                /\ NoRaise
       \/ \E envs \in [1..Len(attemptable) -> FixEnv], e \in StrategyErrors :
            /\ FirstRaise(attemptable, envs) # 0
            /\ Raise(e)
            /\ Logged(PrefixLogs(attemptable, envs, FirstRaise(attemptable, envs)))
            /\ SetSM(Handled(set_step(CurSM, "Fixing", i + 1), e))
            /\ fix_trace' = FixTrace(attemptable, envs)
            /\ UNCHANGED <<new_fixes, bug_fail_counts, last_outcomes>>
    /\ UNCHANGED <<timeline, fixes, fix_index, results, i, retry_limit, path,
                   branch, total_failures, total_fixes, total_commits, failures,
                   bugs, attemptable, budget, webVars, pubVars,
                   readerVars, streamHist, groqVars, testVars, snap, lockVars>>

\* GitAgent.commit_push (git_agent.py:55-69) commits iff the tree is dirty; a
\* fix applied in this iteration has changed a file
CommitResults == IF NumFixed(new_fixes) > 0 THEN {TRUE} ELSE BOOLEAN

\* The locals of the loop body are not read again before the next iteration
\* assigns them: the model forgets their values at the end of the body
BodyLocalsDead ==
    /\ failures' = NoneResult
    /\ bugs' = << >>
    /\ attemptable' = << >>
    /\ new_fixes' = << >>
    /\ fix_trace' = << >>

\* orchestrator.py:157-171
Commit ==
    /\ pc = "commit"
    /\ Called("commit_push")
    /\ \/ \E committed \in CommitResults :
            /\ total_commits' = IF committed THEN total_commits + 1 ELSE total_commits
            /\ Logged(1)
            /\ SetSM(mark_step(set_step(CurSM, "Commit", i + 1), "Commit", "Done"))
            /\ total_failures' = total_failures + Len(bugs)
            /\ total_fixes' = total_fixes + NumFixed(new_fixes)
            /\ LET acc == upsert_fixes(<<fixes, fix_index>>, new_fixes, 1)
               IN  fixes' = acc[1] /\ fix_index' = acc[2]
            /\ i' = i + 1
            /\ pc' = LoopNext(i + 1)
            /\ BodyLocalsDead
            /\ NoRaise
       \/ \E e \in Raisable :
            /\ Raise(e)
            /\ SetSM(Handled(set_step(CurSM, "Commit", i + 1), e))
            /\ UNCHANGED <<total_commits, total_failures, total_fixes, fixes,
                           fix_index, i, busVars, failures, bugs, attemptable,
                           new_fixes, fix_trace>>
    /\ UNCHANGED <<timeline, bug_fail_counts, results, retry_limit, path, branch,
                   last_outcomes, budget, webVars, pubVars,
                   readerVars, streamHist, groqVars, testVars, snap, lockVars>>

\* ResultsManager.generate (results_manager.py:22-44)
Summary ==
    [final_status |-> IF timeline # << >> THEN timeline[Len(timeline)].status
                      ELSE "NO_RUNS",
     iterations |-> Len(timeline),
     retry_limit |-> retry_limit,
     total_failures |-> total_failures,
     total_fixes |-> total_fixes,
     total_commits |-> total_commits]

\* orchestrator.py:173-200; generate or _archive_repo may raise: the counts
\* are of the calls that returned
Finish ==
    /\ pc = "finish"
    /\ \/ /\ results' = Summary
          /\ calls' = [calls EXCEPT !.generate = @ + 1, !.archive_repo = @ + 1]
          /\ status' = [state |-> "COMPLETED"]
          /\ SetSM(set_step(set_state(CurSM, "COMPLETED", ""), "Completed",
                            Len(timeline)))
          /\ pc' = "finally"
          /\ UNCHANGED <<exc, raised>>
       \/ \E e \in Raisable :
            /\ Raise(e)
            /\ SetSM(Handled(CurSM, e))
            /\ \/ results' = results /\ calls' = calls
               \/ results' = Summary /\ Called("generate")
    /\ UNCHANGED <<timeline, fixes, fix_index, bug_fail_counts, busVars, i,
                   retry_limit, path, branch, total_failures, total_fixes,
                   total_commits, failures, bugs, attemptable, new_fixes,
                   fix_trace, last_outcomes, budget, webVars, pubVars,
                   readerVars, streamHist, groqVars, testVars, snap, lockVars>>

\* a finally block that never forces the state
StillRunningNever(st) == FALSE

\* orchestrator.py:213: the test of the finally block
StillRunning(st) == st.state = "RUNNING"

\* orchestrator.py:211-216: the finally block forces a terminal state
Finally ==
    /\ pc = "finally"
    /\ IF StillRunning(status)
       THEN /\ status' = Put(Put(status, "state", "FAILED"), "error",
                             "Unknown termination")
            /\ SetSM(set_state(CurSM, "FAILED", "Unknown termination"))
       ELSE UNCHANGED <<status, smVars>>
    /\ pc' = "cleanup"
    /\ UNCHANGED <<timeline, fixes, fix_index, bug_fail_counts, busVars, results,
                   i, retry_limit, path, branch, total_failures, total_fixes,
                   total_commits, failures, bugs, attemptable, new_fixes, exc,
                   histVars, webVars, pubVars, readerVars, streamHist, groqVars,
                   testVars, snap, lockVars>>

\* what the removal of the working copy does: it returns, or an error leaves it
CleanupOutcomes == {NoExc, [kind |-> "Exception", msg |-> "rm"]}

\* a handler that records the error of the cleanup as the error of the run
cleanup_handler_records(st, e) ==
    IF e = NoExc THEN st ELSE [state |-> "FAILED", error |-> e.msg]

\* orchestrator.py:222-223: `except Exception: pass`
cleanup_handler(st, e) == st

\* orchestrator.py:218-223.  run then returns (or lets exc propagate) and its
\* locals are gone.
Cleanup ==
    /\ pc = "cleanup"
    /\ IF path # ""
       THEN \E e \in CleanupOutcomes :
              /\ calls' = [calls EXCEPT !.cleanup_repo = @ + 1,
                                        !.cleanup_raised =
                                            IF e = NoExc THEN @ ELSE @ + 1]
              /\ status' = cleanup_handler(status, e)
       ELSE UNCHANGED <<calls, status>>
    /\ pc' = "returned"
    /\ i' = 0
    /\ retry_limit' = 0
    /\ path' = ""
    /\ branch' = ""
    /\ total_failures' = 0
    /\ total_fixes' = 0
    /\ total_commits' = 0
    /\ BodyLocalsDead
    /\ UNCHANGED <<timeline, fixes, fix_index, bug_fail_counts, smVars, busVars,
                   results, exc, last_outcomes, raised, budget, webVars, pubVars,
                   readerVars, streamHist, groqVars, testVars, snap, lockVars>>

Next ==
    \/ RunStart
    \/ Clone
    \/ CreateBranch
    \/ Test
    \/ Detect
    \/ Fix
    \/ Commit
    \/ Finish
    \/ Finally
    \/ Cleanup

Spec == Init /\ [][Next]_vars

(***************************************************************************)
(* The event bus under concurrent callers: threads calling publish         *)
(* (event_bus.py:14-24), statement by statement, and one /events stream    *)
(* polling get_since (main.py:86-114).                                     *)
(***************************************************************************)
runVars == <<orchVars, smVars, results, localVars, histVars, webVars>>

\* values of the last_id query parameter
LastIds == -1..2

InPublish == {p \in Publishers : ppc[p] # "idle"}

\* event_bus.py:14: a thread calls publish
PubCall(p) ==
    /\ ppc[p] = "idle"
    /\ Len(issued) + Cardinality(InPublish) < MaxPublish
    /\ ppc' = [ppc EXCEPT ![p] = "waiting"]
    /\ UNCHANGED <<busVars, pev, issued, readerVars, streamHist, runVars,
                   groqVars, testVars, snap, lockVars>>

\* event_bus.py:15: enter `with self._lock`
PubAcquire(p) ==
    /\ ppc[p] = "waiting"
    /\ CanAcquire(bus_lock)
    /\ bus_lock' = p
    /\ ppc' = [ppc EXCEPT ![p] = "locked"]
    /\ UNCHANGED <<events, next_id, pev, issued, readerVars, streamHist, runVars,
                   groqVars, testVars, snap, lockVars>>

\* event_bus.py:16-22: build the event with id _next_id and append it
PubAppend(p) ==
    /\ ppc[p] = "locked"
    /\ pev' = [pev EXCEPT ![p] = next_id]
    /\ events' = DequeAppend(events, [id |-> next_id, type |-> "log"])
    /\ ppc' = [ppc EXCEPT ![p] = "appended"]
    /\ IF rpc # "closed"
       THEN /\ since_poll' = since_poll + 1
            /\ overrun' = (overrun \/ since_poll + 1 > max_events)
       ELSE UNCHANGED <<since_poll, overrun>>
    /\ UNCHANGED <<next_id, bus_lock, issued, readerVars, opened, runVars,
                   groqVars, testVars, snap, lockVars>>

\* event_bus.py:23
PubIncrement(p) ==
    /\ ppc[p] = "appended"
    /\ next_id' = next_id + 1
    /\ ppc' = [ppc EXCEPT ![p] = "incremented"]
    /\ UNCHANGED <<events, bus_lock, pev, issued, readerVars, streamHist, runVars,
                   groqVars, testVars, snap, lockVars>>

\* event_bus.py:24: return event["id"], leaving the with block
PubReturn(p) ==
    /\ ppc[p] = "incremented"
    /\ issued' = Append(issued, pev[p])
    /\ bus_lock' = IF bus_lock = p THEN NoOwner ELSE bus_lock
    /\ ppc' = [ppc EXCEPT ![p] = "idle"]
    /\ UNCHANGED <<events, next_id, pev, readerVars, streamHist, runVars,
                   groqVars, testVars, snap, lockVars>>

\* main.py:86-89: a client opens the stream
StreamOpen ==
    /\ rpc = "closed"
    /\ \E last_id \in LastIds :
        /\ cursor' = last_id
        /\ opened' = [cursor |-> last_id,
                      tail |-> IF events = << >> THEN 0 ELSE events[Len(events)].id]
    /\ rpc' = "loop"
    /\ pending' = << >>
    /\ received' = << >>
    /\ since_poll' = 0
    /\ overrun' = FALSE
    /\ UNCHANGED <<busVars, pubVars, runVars, groqVars, testVars, snap, lockVars>>

\* main.py:94-95, 109-114: one call of get_since; an empty answer is slept on
StreamPoll ==
    /\ rpc = "loop"
    /\ CanAcquire(bus_lock)
    /\ LET evs == get_since(events, cursor)
       IN  IF evs # << >>
           THEN pending' = evs /\ rpc' = "yield"
           ELSE UNCHANGED <<pending, rpc>>
    /\ since_poll' = 0
    /\ UNCHANGED <<cursor, received, opened, overrun, busVars, pubVars, runVars,
                   groqVars, testVars, snap, lockVars>>

\* main.py:96-107: advance the cursor and yield the next event of the answer
StreamYield ==
    /\ rpc = "yield"
    /\ cursor' = Max(cursor, Head(pending).id)
    /\ received' = Append(received, Head(pending).id)
    /\ pending' = Tail(pending)
    /\ rpc' = IF Tail(pending) = << >> THEN "loop" ELSE "yield"
    /\ UNCHANGED <<streamHist, busVars, pubVars, runVars,
                   groqVars, testVars, snap, lockVars>>

\* main.py:91-92: the client is gone and the generator ends
StreamClose ==
    /\ rpc \in {"loop", "yield"}
    /\ rpc' = "closed"
    /\ pending' = << >>
    /\ opened' = NotOpened
    /\ since_poll' = 0
    /\ overrun' = FALSE
    /\ UNCHANGED <<cursor, received, busVars, pubVars, runVars,
                   groqVars, testVars, snap, lockVars>>

NextBus ==
    \/ \E p \in Publishers : PubCall(p)
    \/ \E p \in Publishers : PubAcquire(p)
    \/ \E p \in Publishers : PubAppend(p)
    \/ \E p \in Publishers : PubIncrement(p)
    \/ \E p \in Publishers : PubReturn(p)
    \/ StreamOpen
    \/ StreamPoll
    \/ StreamYield
    \/ StreamClose

SpecBus == Init /\ [][NextBus]_vars

\* The same, with the scheduling the code relies on: the event loop resumes
\* the generator after each yield and each sleep (main.py:90-114) until the
\* client is gone, and a thread inside publish runs to its return.
SpecStream ==
    /\ Init
    /\ [][NextBus]_vars
    /\ WF_vars(StreamPoll)
    /\ WF_vars(StreamYield)
    /\ \A p \in Publishers :
        /\ WF_vars(PubAcquire(p))
        /\ WF_vars(PubAppend(p))
        /\ WF_vars(PubIncrement(p))
        /\ WF_vars(PubReturn(p))

(***************************************************************************)
(* The start-run boundary: POST /run-agent handlers (main.py:48-62) and    *)
(* the background tasks they add, each a call of Orchestrator.run on a     *)
(* thread of its own.  Between its entry and its exit a run does not write *)
(* self.status, which is all the handler reads: the steps in between are   *)
(* left out here.                                                          *)
(***************************************************************************)
\* values of payload.retry_limit
RetryLimits == {1, 5}

\* main.py:51-62
run_agent ==
    /\ Len(responses) < MaxRequests
    /\ IF status.state = "RUNNING"
       THEN /\ responses' = Append(responses, 409)
            /\ tasks' = tasks
       ELSE /\ responses' = Append(responses, 200)
            /\ tasks' = tasks + 1
    /\ UNCHANGED <<orchVars, smVars, busVars, results, localVars, histVars,
                   in_run, pubVars, readerVars, streamHist,
                   groqVars, testVars, snap, lockVars>>

\* a background task starts: orchestrator.py:53-65
TaskBegin ==
    /\ tasks > 0
    /\ tasks' = tasks - 1
    /\ in_run' = in_run + 1
    /\ \E rl \in RetryLimits : RunEntry(rl)
    /\ UNCHANGED <<busVars, results, localVars, histVars, responses, pubVars,
                   readerVars, streamHist, groqVars, testVars, snap, lockVars>>

\* a run in progress comes to its end and returns: orchestrator.py:193-216
TaskEnd ==
    /\ in_run > 0
    /\ in_run' = in_run - 1
    /\ \/ /\ status' = [state |-> "COMPLETED"]
          /\ SetSM(set_step(set_state(CurSM, "COMPLETED", ""), "Completed",
                            Len(timeline)))
       \/ \E e \in Raisable :
            IF e.kind = "Exception"
            THEN /\ status' = [state |-> "FAILED", error |-> e.msg]
                 /\ SetSM(set_state(CurSM, "FAILED", e.msg))
            ELSE IF StillRunning(status)
            THEN /\ status' = Put(Put(status, "state", "FAILED"), "error",
                                  "Unknown termination")
                 /\ SetSM(set_state(CurSM, "FAILED", "Unknown termination"))
            ELSE UNCHANGED <<status, smVars>>
    /\ UNCHANGED <<timeline, fixes, fix_index, bug_fail_counts, busVars, results,
                   localVars, histVars, tasks, responses, pubVars,
                   readerVars, streamHist, groqVars, testVars, snap, lockVars>>

NextAdmit ==
    \/ run_agent
    \/ TaskBegin
    \/ TaskEnd

SpecAdmit == Init /\ [][NextAdmit]_vars

(***************************************************************************)
(* The agents as functions: BugAgent.parse on a raw text, the queueing     *)
(* loop of the orchestrator on its records, FixAgent.apply_fixes on the    *)
(* queued records.  The texts are drawn from diagnostics that several      *)
(* matcher families recognise, whose paths normalise to the same file and  *)
(* whose path has a directory named <unknown> below a second repo/.        *)
(***************************************************************************)
\* pytest short form of D2: the same file and line, another family
A3 == [family |-> "logic_short", file |-> <<"app.py">>, line |-> 2, msg |-> ""]

\* collection error of the module of D1, named by another absolute path
A4 == [family |-> "collection", file |-> <<"home", "repo", "pkg", "mod.py">>,
       line |-> 0, msg |-> ""]

\* File "/home/repo/<unknown>/repo/x.py", line 1 ... ImportError
A5 == [family |-> "import", file |-> <<"home", "repo", "<unknown>", "repo", "x.py">>,
       line |-> 1, msg |-> ""]

A6 == [family |-> "syntax", file |-> <<"app.py">>, line |-> 2, msg |-> ""]

A7 == [family |-> "pyright", file |-> <<"app.py">>, line |-> 2, msg |-> "type"]

\* basedpyright on the line of D2, with a message of no known keyword
A9 == [family |-> "pyright", file |-> <<"app.py">>, line |-> 2, msg |-> "other"]

AgentDiagnostics == {D1, D2, A3, A4, A5, A6, A7, Noise}

AgentInputs ==
    {NoneResult} \cup
    {[none |-> FALSE, text |-> t] : t \in SeqsUpTo(AgentDiagnostics, MaxAgentTextLen)}

\* the failure counters the queueing loop may find: none, or every key of the
\* batch at the escalation threshold
AgentCounts(bs) ==
    {EmptyDict, [k \in {KeyOf(bs[n]) : n \in 1..Len(bs)} |-> max_bug_attempts]}

InitAgents ==
    /\ status = [state |-> "IDLE"]
    /\ timeline = << >>
    /\ fixes = << >>
    /\ fix_index = EmptyDict
    /\ bug_fail_counts = EmptyDict
    /\ sm_state = [state |-> "IDLE", current_step |-> "", iteration |-> 0,
                   total_iterations |-> 0, failures |-> 0, fixes_applied |-> 0,
                   branch_name |-> ""]
    /\ sm_timeline = << >>
    /\ events = << >>
    /\ next_id = 1
    /\ bus_lock = NoOwner
    /\ results = EmptyDict
    /\ pc = "logs"
    /\ i = 0
    /\ retry_limit = 0
    /\ path = RepoPath
    /\ branch = ""
    /\ total_failures = 0
    /\ total_fixes = 0
    /\ total_commits = 0
    /\ failures \in AgentInputs
    /\ bugs = << >>
    /\ attemptable = << >>
    /\ new_fixes = << >>
    /\ exc = NoExc
    /\ fix_trace = << >>
    /\ last_outcomes = EmptyDict
    /\ calls = NoCalls
    /\ raised = FALSE
    /\ budget = 0
    /\ tasks = 0
    /\ in_run = 0
    /\ responses = << >>
    /\ ppc = [p \in Publishers |-> "idle"]
    /\ pev = [p \in Publishers |-> 0]
    /\ issued = << >>
    /\ rpc = "closed"
    /\ cursor = 0
    /\ pending = << >>
    /\ received = << >>
    /\ opened = NotOpened
    /\ since_poll = 0
    /\ overrun = FALSE
    /\ groq_call = NoGroqCall
    /\ groq_out = NoGroqOut
    /\ sm_lock = NoOwner
    /\ tpc = [t \in Threads |-> "idle"]
    /\ top = [t \in Threads |-> "none"]
    /\ wdone = 0
    /\ access = NoAccess
    /\ prepared = FALSE
    /\ passes = << >>
    /\ snap = NoSnap

\* the line a LOGIC record points at: a return of a direct indexing, a floor
\* division, any other line, or no such line in the file
LineTexts == {"return cfg[key]", "return a // b", "return x", "<no line>"}

\* what stands for the line of a record whose strategy does not read it
NoLine == "<not read>"

\* fix_logic_issue (fix_agent.py:224-256): the line afterwards and the value
\* returned
fix_logic_issue(line) ==
    CASE line = "return cfg[key]" -> [line |-> "return cfg.get(key)", changed |-> TRUE]
      [] line = "return a // b" -> [line |-> "return a / b", changed |-> TRUE]
      [] OTHER -> [line |-> line, changed |-> FALSE]

\* fix_agent.py:31-32: the strategy of a LOGIC record reads its line
reads_line(bug, env) == bug.bug_type = "LOGIC" /\ env.exists /\ ~env.err

\* the environments of a call and the lines its LOGIC records point at: what
\* the strategy does to the file is what fix_logic_issue does to the line
LineEnvs(bs) ==
    {p \in [envs : [1..Len(bs) -> FixEnv],
            lines : [1..Len(bs) -> LineTexts \cup {NoLine}]] :
        \A n \in 1..Len(bs) :
            IF reads_line(bs[n], p.envs[n])
            THEN /\ p.lines[n] \in LineTexts
                 /\ p.envs[n].det = fix_logic_issue(p.lines[n]).changed
            ELSE p.lines[n] = NoLine}

\* FixTrace with the line each record pointed at and the line afterwards
AgentTrace(bs, p) ==
    LET tr == FixTrace(bs, p.envs)
    IN  [n \in DOMAIN tr |->
            Put(Put(tr[n], "line_text", p.lines[n]),
                "line_after", IF tr[n].det_fixed /\ p.lines[n] # NoLine
                              THEN fix_logic_issue(p.lines[n]).line
                              ELSE p.lines[n])]

agentFrame == <<orchVars, smVars, busVars, results, i, retry_limit, path, branch,
                total_failures, total_fixes, total_commits, failures, exc,
                last_outcomes, calls, raised, budget, webVars, pubVars,
                readerVars, streamHist, groqVars, testVars, snap, lockVars>>

\* bugs = self.bug.parse(failures)  (orchestrator.py:107)
Classify ==
    /\ pc = "logs"
    /\ bugs' = parse(failures)
    /\ pc' = "classified"
    /\ UNCHANGED <<attemptable, new_fixes, fix_trace, agentFrame>>

\* orchestrator.py:123-134
Enqueue ==
    /\ pc = "classified"
    /\ \E counts \in AgentCounts(bugs) : attemptable' = Queue(bugs, counts)
    /\ pc' = "queued"
    /\ UNCHANGED <<bugs, new_fixes, fix_trace, agentFrame>>

\* fixes = self.fix.apply_fixes(path, attemptable)  (orchestrator.py:137): the
\* call returns its outcomes, or is left by the error of a strategy
Repair ==
    /\ pc = "queued"
    /\ \E p \in LineEnvs(attemptable) :
        /\ fix_trace' = AgentTrace(attemptable, p)
        /\ IF FirstRaise(attemptable, p.envs) = 0
           THEN /\ new_fixes' = apply_fixes(attemptable, p.envs)
                /\ pc' = "repaired"
           ELSE /\ new_fixes' = << >>
                /\ pc' = "left"
    /\ UNCHANGED <<bugs, attemptable, agentFrame>>

NextAgents ==
    \/ Classify
    \/ Enqueue
    \/ Repair

SpecAgents == InitAgents /\ [][NextAgents]_vars

(***************************************************************************)
(* The oracle step of apply_fixes for one record (fix_agent.py:36-65) with *)
(* GroqAIAgent.fix_file (groq_ai_agent.py:38-89) in full.  A text is the   *)
(* sequence of its characters: "x" is program text, "(" is text that does  *)
(* not compile, " " is white space (a newline included).                   *)
(***************************************************************************)
Chars == {"x", "(", " "}

Contents == SeqsUpTo(Chars, MaxContentLen)

\* what responses.create does within the timeout: an answer, no answer in
\* time (asyncio.TimeoutError), or an error of the client
OracleAnswers ==
    {[kind |-> "text", text |-> t] : t \in Contents}
    \cup {[kind |-> "timeout", text |-> << >>], [kind |-> "error", text |-> << >>]}

GroqCalls ==
    {c \in [exists : BOOLEAN, py : BOOLEAN, source : Contents, resp : OracleAnswers] :
        ~c.exists => c.source = << >>}

\* str.strip()
RECURSIVE strip(_)
strip(t) ==
    IF t = << >> THEN t
    ELSE IF Head(t) = " " THEN strip(Tail(t))
    ELSE IF t[Len(t)] = " " THEN strip(SubSeq(t, 1, Len(t) - 1))
    ELSE t

\* compile(fixed, file_path, "exec") raises no SyntaxError
compiles(t) == \A n \in 1..Len(t) : t[n] # "("

\* groq_ai_agent.py:50-89: the value returned and the file afterwards
fix_file_async(c) ==
    LET fixed == strip(c.resp.text) \o <<" ">>
        no == [fixed |-> FALSE, content |-> c.source]
    IN  IF ~c.exists THEN no
        ELSE IF c.resp.kind # "text" THEN no
        ELSE IF fixed = << >> \/ strip(fixed) = strip(c.source) THEN no
        ELSE IF c.py /\ ~compiles(fixed) THEN no
        ELSE [fixed |-> TRUE, content |-> fixed]

\* a record that reaches the oracle step: its strategy changed nothing
OracleBug ==
    [file |-> <<"app.py">>, bug_type |-> "LOGIC", line |-> 2, status |-> "Detected",
     failed_attempts |-> 0]

\* fix_agent.py:36-65 for OracleBug, the oracle answering as in the call c
GroqStep ==
    /\ \E c \in GroqCalls :
        LET out == fix_file_async(c)
            env == [exists |-> c.exists, det |-> FALSE, ora |-> out.fixed,
                    err |-> FALSE]
        IN  /\ groq_call' = c
            /\ groq_out' = [called |-> used_groq(OracleBug, env),
                            fixed |-> fix_fixed(OracleBug, env),
                            content |-> out.content,
                            status |-> FixOutcome(OracleBug, env).status]
    /\ UNCHANGED <<orchVars, smVars, busVars, results, localVars, histVars,
                   webVars, pubVars, readerVars, streamHist, lockVars, testVars, snap>>

NextOracle == GroqStep

SpecOracle == Init /\ [][NextOracle]_vars

(***************************************************************************)
(* The two mutexes.  The run thread calls RuntimeEventBus.publish and the  *)
(* StatusManager operations; request contexts call get_since               *)
(* (main.py:94), snapshot (main.py:82) and read the step timeline          *)
(* (main.py:72).  Every operation but the last is `with self._lock:` around*)
(* its body: wait for the lock, take it, run the body, release on return.  *)
(* A request context is cancelled only where it awaits or between          *)
(* requests, never inside one of these synchronous calls.                  *)
(***************************************************************************)
WriterOps == {"publish", "set_step", "mark_step"}

ReaderOps == {"get_since", "snapshot"}

\* the operations of RuntimeEventBus; the others are StatusManager's
BusOps == {"publish", "get_since"}

\* a with block that keeps the lock
ReleasedNever(lock, t) == lock

\* leaving `with self._lock`: the holder releases
Released(lock, t) == IF lock = t THEN NoOwner ELSE lock

\* a thread calls an operation
OpCall(t, op) ==
    /\ tpc[t] = "idle"
    /\ op \in (IF t = "run" THEN WriterOps ELSE ReaderOps)
    /\ t = "run" => wdone < MaxWriterOps
    /\ tpc' = [tpc EXCEPT ![t] = "waiting"]
    /\ top' = [top EXCEPT ![t] = op]
    /\ UNCHANGED <<sm_lock, wdone, access, orchVars, smVars, busVars, results,
                   localVars, histVars, webVars, pubVars, readerVars, streamHist,
                   groqVars, testVars, snap>>

\* `with self._lock:` is entered (event_bus.py:15, 27; status_manager.py:22-67)
OpAcquire(t) ==
    /\ tpc[t] = "waiting"
    /\ IF top[t] \in BusOps
       THEN CanAcquire(bus_lock) /\ bus_lock' = t /\ sm_lock' = sm_lock
       ELSE CanAcquire(sm_lock) /\ sm_lock' = t /\ bus_lock' = bus_lock
    /\ tpc' = [tpc EXCEPT ![t] = "locked"]
    /\ UNCHANGED <<top, wdone, access, orchVars, smVars, events, next_id, results,
                   localVars, histVars, webVars, pubVars, readerVars, streamHist,
                   groqVars, testVars, snap>>

\* the body of the operation
OpBody(t) ==
    /\ tpc[t] = "locked"
    /\ tpc' = [tpc EXCEPT ![t] = "done"]
    /\ IF top[t] = "publish"
       THEN LET b == PublishOne([events |-> events, next_id |-> next_id])
            IN  events' = b.events /\ next_id' = b.next_id
       ELSE UNCHANGED <<events, next_id>>
    /\ CASE top[t] = "set_step" -> SetSM(set_step(CurSM, "Testing", 1))
         [] top[t] = "mark_step" -> SetSM(mark_step(CurSM, "Clone", "Done"))
         [] OTHER -> UNCHANGED smVars
    /\ IF top[t] \in BusOps
       THEN access' = access
       ELSE access' = [thread |-> t, op |-> top[t], locked |-> sm_lock = t,
                       live |-> FALSE]
    /\ UNCHANGED <<sm_lock, bus_lock, top, wdone, orchVars, results, localVars,
                   histVars, webVars, pubVars, readerVars, streamHist,
                   groqVars, testVars, snap>>

\* the operation returns, leaving its with block
OpReturn(t) ==
    /\ tpc[t] = "done"
    /\ bus_lock' = Released(bus_lock, t)
    /\ sm_lock' = Released(sm_lock, t)
    /\ tpc' = [tpc EXCEPT ![t] = "idle"]
    /\ top' = [top EXCEPT ![t] = "none"]
    /\ wdone' = IF t = "run" THEN wdone + 1 ELSE wdone
    /\ UNCHANGED <<access, orchVars, smVars, events, next_id, results, localVars,
                   histVars, webVars, pubVars, readerVars, streamHist,
                   groqVars, testVars, snap>>

\* main.py:70-72: GET /timeline returns orch.status_mgr.timeline itself
get_timeline(r) ==
    /\ tpc[r] = "idle"
    /\ access' = [thread |-> r, op |-> "get_timeline", locked |-> sm_lock = r,
                  live |-> TRUE]
    /\ UNCHANGED <<sm_lock, tpc, top, wdone, orchVars, smVars, busVars, results,
                   localVars, histVars, webVars, pubVars, readerVars, streamHist,
                   groqVars, testVars, snap>>

\* main.py:91-92: the client is gone; this context calls nothing further
Disconnect(r) ==
    /\ tpc[r] = "idle"
    /\ tpc' = [tpc EXCEPT ![r] = "gone"]
    /\ UNCHANGED <<sm_lock, top, wdone, access, orchVars, smVars, busVars, results,
                   localVars, histVars, webVars, pubVars, readerVars, streamHist,
                   groqVars, testVars, snap>>

NextLocks ==
    \/ \E t \in Threads, op \in WriterOps \cup ReaderOps : OpCall(t, op)
    \/ \E t \in Threads : OpAcquire(t)
    \/ \E t \in Threads : OpBody(t)
    \/ \E t \in Threads : OpReturn(t)
    \/ \E r \in Readers : get_timeline(r)
    \/ \E r \in Readers : Disconnect(r)

\* Scheduling: a thread inside a with block runs to its end, and the run
\* thread is not passed over for ever when the lock it waits for keeps being
\* released.  Nothing makes a request context call again.
SpecLocks ==
    /\ Init
    /\ [][NextLocks]_vars
    /\ \A t \in Threads : WF_vars(OpBody(t)) /\ WF_vars(OpReturn(t))
    /\ SF_vars(OpAcquire("run"))

(***************************************************************************)
(* The run with TestAgent.run_tests in full (test_agent.py:10-97).  _run   *)
(* turns what a command does into a pair (output, return code): 0 for a    *)
(* clean command, 1 for one that reports something, 124 with the text      *)
(* COMMAND_TIMEOUT for one that is killed by its timeout.  A text is the   *)
(* sequence of its diagnostics; the sentinels and the install log are      *)
(* diagnostics that no matcher family recognises.                          *)
(***************************************************************************)
CmdKinds == {"clean", "findings", "timeout"}

\* the lint command of a pass is clean or is killed; the records of what it
\* reports are those of the texts of Spec
LintKinds == {"clean", "timeout"}

VenvFailed == [family |-> "noise", file |-> << >>, line |-> 0,
               msg |-> "VENV_CREATION_FAILED"]

SetupFailed == [family |-> "noise", file |-> << >>, line |-> 0,
                msg |-> "ENV_SETUP_FAILED"]

TimedOut == [family |-> "noise", file |-> << >>, line |-> 0,
             msg |-> "COMMAND_TIMEOUT"]

InstallLog == [family |-> "noise", file |-> << >>, line |-> 0, msg |-> "pip"]

\* what a pass finds in its repository and what its commands do: python_bin
\* exists on entry (bin) and after the venv command (venv), requirements.txt
\* is absent or its install ends as req says, and so on for each command
PassEnvs ==
    [bin : BOOLEAN, venv : BOOLEAN, req : {"absent"} \cup CmdKinds,
     deps : CmdKinds, ruff : LintKinds, pyright : CmdKinds, pytest : CmdKinds]

\* _run (test_agent.py:83-97): the output and the return code of a command
\* that would print `said` when it reports something
run_cmd(kind, said) ==
    CASE kind = "clean" -> [out |-> << >>, rc |-> 0]
      [] kind = "findings" -> [out |-> said, rc |-> 1]
      [] kind = "timeout" -> [out |-> <<TimedOut>>, rc |-> 124]
      [] OTHER -> [out |-> << >>, rc |-> 0]

\* a success test that looks at the test command only
BothCleanTestsOnly(pyright, pytest) == pytest.rc = 0

\* test_agent.py:78: the pass succeeded
BothClean(pyright, pytest) == pyright.rc = 0 /\ pytest.rc = 0

Text(t) == [none |-> FALSE, text |-> t]

\* run_tests (test_agent.py:10-81): the value returned, whether the path is
\* in _prepared_repos afterwards, and what happened: the set-up failed
\* ("setup"), the type check or the tests timed out ("timeout"), only the
\* lint command timed out ("lint_timeout"), or none of these ("normal")
run_tests(prep, e) ==
    LET known == prep /\ e.bin
        req == run_cmd(e.req, <<InstallLog>>)
        deps == run_cmd(e.deps, <<InstallLog>>)
        ruff == run_cmd(e.ruff, << >>)
        pyright == run_cmd(e.pyright, <<A9>>)
        pytest == run_cmd(e.pytest, <<D2>>)
        combined == ruff.out \o pyright.out \o pytest.out
    IN  IF ~known /\ ~(e.bin \/ e.venv)
        THEN [result |-> Text(<<VenvFailed>>), prepared |-> FALSE, kind |-> "setup"]
        ELSE IF ~known /\ req.rc # 0
        THEN [result |-> Text(<<SetupFailed>> \o req.out), prepared |-> FALSE,
              kind |-> "setup"]
        ELSE IF ~known /\ deps.rc # 0
        THEN [result |-> Text(<<SetupFailed>> \o req.out \o deps.out),
              prepared |-> FALSE, kind |-> "setup"]
        ELSE [result |-> IF BothClean(pyright, pytest) THEN NoneResult
                         ELSE Text(combined),
              prepared |-> TRUE,
              kind |-> IF "timeout" \in {e.pyright, e.pytest} THEN "timeout"
                       ELSE IF e.ruff = "timeout" THEN "lint_timeout"
                       ELSE "normal"]

InitPass ==
    /\ status = [state |-> "IDLE"]
    /\ timeline = << >>
    /\ fixes = << >>
    /\ fix_index = EmptyDict
    /\ bug_fail_counts = EmptyDict
    /\ sm_state = [state |-> "IDLE", current_step |-> "", iteration |-> 0,
                   total_iterations |-> 0, failures |-> 0, fixes_applied |-> 0,
                   branch_name |-> ""]
    /\ sm_timeline = << >>
    /\ events = << >>
    /\ next_id = 1
    /\ bus_lock = NoOwner
    /\ results = EmptyDict
    /\ pc = "idle"
    /\ i = 0
    /\ retry_limit = 0
    /\ path = ""
    /\ branch = ""
    /\ total_failures = 0
    /\ total_fixes = 0
    /\ total_commits = 0
    /\ failures = NoneResult
    /\ bugs = << >>
    /\ attemptable = << >>
    /\ new_fixes = << >>
    /\ exc = NoExc
    /\ fix_trace = << >>
    /\ last_outcomes = EmptyDict
    /\ calls = NoCalls
    /\ raised = FALSE
    /\ budget = MaxPassBudget
    /\ tasks = 0
    /\ in_run = 0
    /\ responses = << >>
    /\ ppc = [p \in Publishers |-> "idle"]
    /\ pev = [p \in Publishers |-> 0]
    /\ issued = << >>
    /\ rpc = "closed"
    /\ cursor = 0
    /\ pending = << >>
    /\ received = << >>
    /\ opened = NotOpened
    /\ since_poll = 0
    /\ overrun = FALSE
    /\ groq_call = NoGroqCall
    /\ groq_out = NoGroqOut
    /\ sm_lock = NoOwner
    /\ tpc = [t \in Threads |-> "idle"]
    /\ top = [t \in Threads |-> "none"]
    /\ wdone = 0
    /\ access = NoAccess
    /\ prepared = FALSE
    /\ passes = << >>
    /\ snap = NoSnap

\* orchestrator.py:82-104 with the pass in full: _run catches what a command
\* raises, so the pass returns
TestPass ==
    /\ pc = "test"
    /\ \E e \in PassEnvs :
        LET t == run_tests(prepared, e)
            r == t.result
        IN  /\ failures' = r
            /\ prepared' = t.prepared
            /\ passes' = Append(passes, t.kind)
            /\ calls' = [calls EXCEPT !.run_tests = @ + 1,
                                      !.falsy = IF IsFalsy(r) THEN @ + 1 ELSE @]
            /\ timeline' = Append(timeline,
                                  [run |-> i + 1,
                                   status |-> IF IsFalsy(r) THEN "PASSED" ELSE "FAILED"])
            /\ pc' = AfterTest(r)
    /\ SetSM(set_step(CurSM, "Testing", i + 1))
    /\ Logged(1)
    /\ NoRaise
    /\ UNCHANGED <<fixes, fix_index, bug_fail_counts, results, i, retry_limit,
                   path, branch, total_failures, total_fixes, total_commits,
                   bugs, attemptable, new_fixes, fix_trace, last_outcomes,
                   budget, webVars, pubVars, readerVars, streamHist, groqVars,
                   lockVars, snap>>

NextPass ==
    \/ RunStart
    \/ Clone
    \/ CreateBranch
    \/ TestPass
    \/ Detect
    \/ Fix
    \/ Commit
    \/ Finish
    \/ Finally
    \/ Cleanup

SpecPass == InitPass /\ [][NextPass]_vars

(***************************************************************************)
(* StatusManager.snapshot against the operations of the run thread         *)
(* (status_manager.py:21-70).  snapshot copies under the lock: first       *)
(* dict(self._state), a new dict of the same immutable values, then        *)
(* list(self.timeline), a new list of the same entry objects.  The entries *)
(* of the copy are shared with the list of the StatusManager until reset   *)
(* binds self.timeline to a new list.                                      *)
(***************************************************************************)
SmOps == {"reset", "set_step", "mark_step", "update_counts", "set_state",
          "set_branch"}

\* the run thread calls an operation of the StatusManager
SmCall(op) ==
    /\ tpc["run"] = "idle"
    /\ wdone < MaxSnapOps
    /\ tpc' = [tpc EXCEPT !["run"] = "waiting"]
    /\ top' = [top EXCEPT !["run"] = op]
    /\ UNCHANGED <<sm_lock, wdone, access, orchVars, smVars, busVars, results,
                   localVars, histVars, webVars, pubVars, readerVars, streamHist,
                   groqVars, testVars, snap>>

\* the body of the operation, with the lock held (status_manager.py:23-64)
SmBody ==
    /\ tpc["run"] = "locked"
    /\ tpc' = [tpc EXCEPT !["run"] = "done"]
    /\ CASE top["run"] = "reset" -> SetSM(sm_reset(CurSM, 1, ""))
         [] top["run"] = "set_step" -> SetSM(set_step(CurSM, "Testing", 1))
         [] top["run"] = "mark_step" -> SetSM(mark_step(CurSM, "Fixing", "Done"))
         [] top["run"] = "update_counts" -> SetSM(update_failures(CurSM, 2))
         [] top["run"] = "set_state" -> SetSM(set_state(CurSM, "FAILED", "boom"))
         [] top["run"] = "set_branch" -> SetSM(set_branch(CurSM, BranchName))
    /\ snap' = IF top["run"] = "reset" THEN [snap EXCEPT !.shared = FALSE] ELSE snap
    /\ UNCHANGED <<sm_lock, top, wdone, access, orchVars, busVars, results,
                   localVars, histVars, webVars, pubVars, readerVars, streamHist,
                   groqVars, testVars>>

\* GET /status (main.py:80-82) calls snapshot
SnapshotCall ==
    /\ tpc["r1"] = "idle"
    /\ tpc' = [tpc EXCEPT !["r1"] = "waiting"]
    /\ top' = [top EXCEPT !["r1"] = "snapshot"]
    /\ UNCHANGED <<sm_lock, wdone, access, orchVars, smVars, busVars, results,
                   localVars, histVars, webVars, pubVars, readerVars, streamHist,
                   groqVars, testVars, snap>>

\* snap = dict(self._state)  (status_manager.py:68)
CopyState ==
    /\ tpc["r1"] = "locked"
    /\ tpc' = [tpc EXCEPT !["r1"] = "copied"]
    /\ snap' = [held |-> FALSE, st |-> sm_state, tl |-> << >>,
                tl_seen |-> sm_timeline, shared |-> FALSE]
    /\ UNCHANGED <<sm_lock, top, wdone, access, orchVars, smVars, busVars, results,
                   localVars, histVars, webVars, pubVars, readerVars, streamHist,
                   groqVars, testVars>>

\* snap["timeline"] = list(self.timeline)  (status_manager.py:69)
CopyTimeline ==
    /\ tpc["r1"] = "copied"
    /\ tpc' = [tpc EXCEPT !["r1"] = "done"]
    /\ snap' = [snap EXCEPT !.held = TRUE, !.tl = sm_timeline, !.shared = TRUE]
    /\ UNCHANGED <<sm_lock, top, wdone, access, orchVars, smVars, busVars, results,
                   localVars, histVars, webVars, pubVars, readerVars, streamHist,
                   groqVars, testVars>>

NextSnap ==
    \/ \E op \in SmOps : SmCall(op)
    \/ \E t \in {"run", "r1"} : OpAcquire(t)
    \/ SmBody
    \/ \E t \in {"run", "r1"} : OpReturn(t)
    \/ SnapshotCall
    \/ CopyState
    \/ CopyTimeline

SpecSnap == Init /\ [][NextSnap]_vars

(***************************************************************************)
(* Consecutive runs of one process: the run steps publish through _log     *)
(* (orchestrator.py:250-252) on the bus the constructor made; a reader of  *)
(* the bus is a call get_since(cursor) (main.py:94), which the lock makes  *)
(* atomic against the publish calls of the run.                            *)
(***************************************************************************)
InitRuns ==
    /\ status = [state |-> "IDLE"]
    /\ timeline = << >>
    /\ fixes = << >>
    /\ fix_index = EmptyDict
    /\ bug_fail_counts = EmptyDict
    /\ sm_state = [state |-> "IDLE", current_step |-> "", iteration |-> 0,
                   total_iterations |-> 0, failures |-> 0, fixes_applied |-> 0,
                   branch_name |-> ""]
    /\ sm_timeline = << >>
    /\ events = << >>
    /\ next_id = 1
    /\ bus_lock = NoOwner
    /\ results = EmptyDict
    /\ pc = "idle"
    /\ i = 0
    /\ retry_limit = 0
    /\ path = ""
    /\ branch = ""
    /\ total_failures = 0
    /\ total_fixes = 0
    /\ total_commits = 0
    /\ failures = NoneResult
    /\ bugs = << >>
    /\ attemptable = << >>
    /\ new_fixes = << >>
    /\ exc = NoExc
    /\ fix_trace = << >>
    /\ last_outcomes = EmptyDict
    /\ calls = NoCalls
    /\ raised = FALSE
    /\ budget = MaxRunsBudget
    /\ tasks = 0
    /\ in_run = 0
    /\ responses = << >>
    /\ ppc = [p \in Publishers |-> "idle"]
    /\ pev = [p \in Publishers |-> 0]
    /\ issued = << >>
    /\ rpc = "closed"
    /\ cursor = 0
    /\ pending = << >>
    /\ received = << >>
    /\ opened = NotOpened
    /\ since_poll = 0
    /\ overrun = FALSE
    /\ groq_call = NoGroqCall
    /\ groq_out = NoGroqOut
    /\ sm_lock = NoOwner
    /\ tpc = [t \in Threads |-> "idle"]
    /\ top = [t \in Threads |-> "none"]
    /\ wdone = 0
    /\ access = NoAccess
    /\ prepared = FALSE
    /\ passes = << >>
    /\ snap = NoSnap

SpecRuns == InitRuns /\ [][Next]_vars

(***************************************************************************)
(* Properties                                                              *)
(***************************************************************************)
Terminal == {"COMPLETED", "FAILED"}

Last(q) == q[Len(q)]

\* C1: once run has returned, on every exit path (normal, an Exception, an
\* exception the handler does not catch), the state is COMPLETED or FAILED,
\* never RUNNING, both in Orchestrator.status and in the StatusManager snapshot.
C1_RunEndsTerminal ==
    pc = "returned" => status.state \in Terminal /\ snapshot.state \in Terminal

\* a run left by an uncaught exception and forced to FAILED by the finally block
W_C1 ==
    /\ pc = "returned"
    /\ exc.kind = "BaseException"
    /\ status = [state |-> "FAILED", error |-> "Unknown termination"]
    /\ snapshot.state = "FAILED"

\* C2: at most one execution of Orchestrator.run is in progress at any time,
\* under any interleaving of start-run requests and background tasks.
C2_AtMostOneRun == in_run <= 1

C4_ForcedSkipsDeterministic ==
    \A n \in 1..Len(fix_trace) :
        fix_trace[n].force_groq => ~fix_trace[n].det_invoked

\* C5: within a run, an accumulator entry that is Fixed stays Fixed: a later
\* outcome for the same key does not overwrite it (only the reset at the start
\* of the next run removes it).
C5_FixedIsKept ==
    [][pc' # "clone" =>
        \A k \in DOMAIN fix_index :
            fixes[fix_index[k] + 1].status = "Fixed"
            => /\ k \in DOMAIN fix_index'
               /\ fixes'[fix_index'[k] + 1].status = "Fixed"]_vars

\* C6: after a run, a FAILED snapshot carries a non-empty error and a
\* COMPLETED snapshot carries no error field.
C6_ErrorIffFailed ==
    pc = "returned" =>
        /\ snapshot.state = "FAILED" => Get(snapshot, "error", "") # ""
        /\ snapshot.state = "COMPLETED" => "error" \notin DOMAIN snapshot

\* C7: a run with retry_limit N >= 1 in which no collaborator raised and every
\* test pass returned non-empty diagnostics ends COMPLETED after exactly N
\* test passes, with a timeline of N entries, all FAILED.
C7_BudgetExhausted ==
    (/\ pc = "returned"
     /\ ~raised
     /\ calls.falsy = 0
     /\ sm_state.total_iterations >= 1)
    => /\ status.state = "COMPLETED"
       /\ snapshot.state = "COMPLETED"
       /\ calls.run_tests = sm_state.total_iterations
       /\ Len(timeline) = sm_state.total_iterations
       /\ \A j \in 1..Len(timeline) : timeline[j].status = "FAILED"

\* three failing iterations of a run with retry_limit 3
W_C7 ==
    /\ pc = "returned"
    /\ ~raised
    /\ calls.falsy = 0
    /\ sm_state.total_iterations = 3
    /\ Len(timeline) = 3
    /\ status.state = "COMPLETED"

\* C8: a PASSED entry is the last entry of the timeline; once it is there the
\* loop has ended: no further test pass, and no classification, fix attempt or
\* commit in the passing iteration (so a pass on iteration 1 leaves a timeline
\* of length 1 and no fix attempt).
C8_PassEndsLoop ==
    /\ \A j \in 1..(Len(timeline) - 1) : timeline[j].status = "FAILED"
    /\ (timeline # << >> /\ Last(timeline).status = "PASSED")
       => /\ pc \in {"finish", "finally", "cleanup", "returned"}
          /\ calls.run_tests = Len(timeline)
          /\ calls.parse = Len(timeline) - 1
          /\ calls.apply_fixes = Len(timeline) - 1
          /\ calls.commit_push = Len(timeline) - 1

\* a pass on iteration 1 of a run with retry_limit 3
W_C8 ==
    /\ pc = "returned"
    /\ sm_state.total_iterations = 3
    /\ Len(timeline) = 1
    /\ timeline[1].status = "PASSED"
    /\ calls.apply_fixes = 0

\* C9: get_since(c) returns only events with id > c, and a stream that polls
\* with the greatest id it has yielded is never yielded an event twice,
\* whatever publish calls interleave.
C9_CursorMonotone ==
    /\ \A c \in -1..MaxPublish :
        \A n \in 1..Len(get_since(events, c)) : get_since(events, c)[n].id > c
    /\ \A a, b \in 1..Len(received) : a < b => received[a] # received[b]

\* a stream in the middle of an answer, after three events, with a publish
\* in progress
W_C9 ==
    /\ Len(received) >= 3
    /\ pending # << >>
    /\ InPublish # {}

\* C10: the n-th publish to return returns n: ids start at 1, grow by one per
\* publish under any interleaving of publishers, and are never given twice,
\* also after their event was evicted.
C10_IdsSequential ==
    /\ \A n \in 1..Len(issued) : issued[n] = n
    /\ \A a, b \in 1..Len(events) : a < b => events[a].id # events[b].id

\* more publishes than the ring holds, and a publisher waiting for the lock
\* while another is inside publish
W_C10 ==
    /\ Len(events) = max_events
    /\ Head(events).id > 1
    /\ \E p, q \in Publishers : ppc[p] = "waiting" /\ ppc[q] = "appended"

\* C11: the ring never holds more than max_events events; after n appends it
\* holds exactly the min(n, max_events) most recently appended events, with
\* ascending and contiguous ids ending at n (so each append to a full ring
\* dropped exactly the event with the lowest id).
Appends == (next_id - 1) + Cardinality({p \in Publishers : ppc[p] = "appended"})

C11_RingBounded ==
    /\ Len(events) <= max_events
    /\ Len(events) = (IF Appends <= max_events THEN Appends ELSE max_events)
    /\ \A n \in 1..Len(events) : events[n].id = Appends - Len(events) + n

\* two events were evicted from a full ring and no publish is in progress
W_C11 ==
    /\ Len(events) = max_events
    /\ next_id = max_events + 3
    /\ Head(events).id = 3
    /\ InPublish = {}

\* C12: apply_fixes never raises: an error inside the deterministic strategy of
\* a record does not leave apply_fixes (that record would be Failed and the
\* rest of the batch still processed), so no call of apply_fixes ends at a
\* record whose strategy raised, with the run turned FAILED by it.
C12_ApplyFixesNeverRaises ==
    \A n \in 1..Len(fix_trace) :
        fix_trace[n].raised => ~(pc = "finally" /\ status.state = "FAILED")

\* C13: for every input list, apply_fixes returns a list of the same length
\* whose n-th outcome has the (file, bug_type, line) of the n-th input record
\* and the status Fixed or Failed.
C13_OneOutcomePerRecord ==
    pc \in {"repaired", "left"} =>
        /\ Len(new_fixes) = Len(attemptable)
        /\ \A n \in 1..Len(new_fixes) :
            /\ KeyOf(new_fixes[n]) = KeyOf(attemptable[n])
            /\ new_fixes[n].status \in {"Fixed", "Failed"}

\* C14: a record of type UNKNOWN, or whose file is <unknown>, is not passed to
\* the oracle, no deterministic strategy runs for it and its outcome is
\* Failed, whatever its failed_attempts and force_groq.
C14_UnknownUntouched ==
    \A n \in 1..Len(fix_trace) :
        (fix_trace[n].key[2] = "UNKNOWN" \/ fix_trace[n].key[1] = UnknownFile)
        => /\ ~fix_trace[n].used_groq
           /\ ~fix_trace[n].det_invoked
           /\ pc = "repaired" => new_fixes[n].status = "Failed"

\* the key a recognised diagnostic is recorded under
Produced(d) ==
    <<clean_path(d.file), FamilyType(d), IF d.family = "collection" THEN 1 ELSE d.line>>

Recognised(text) == {j \in 1..Len(text) : text[j].family # "noise"}

FamilyIndex(f) == CHOOSE n \in 1..Len(FamilyOrder) : FamilyOrder[n] = f

\* position of the first match of key k: by family, then by place in the text
Rank(text, k) ==
    LET hits == {FamilyIndex(text[j].family) * (Len(text) + 1) + j :
                    j \in {m \in Recognised(text) : Produced(text[m]) = k}}
    IN  CHOOSE r \in hits : \A q \in hits : r <= q

UnknownRecord ==
    [file |-> UnknownFile, bug_type |-> "UNKNOWN", line |-> 1, status |-> "Detected"]

\* C16: classification of None or of the empty text is the empty list; of a
\* non-empty text in which no family matches, exactly the one record
\* (<unknown>, UNKNOWN, 1, Detected); an UNKNOWN record is never returned
\* together with another record.
C16_ClassificationTotal ==
    pc = "classified" =>
        /\ IsFalsy(failures) => bugs = << >>
        /\ (~IsFalsy(failures) /\ Recognised(failures.text) = {})
           => bugs = <<UnknownRecord>>
        /\ \A n \in 1..Len(bugs) : bugs[n].bug_type = "UNKNOWN" => Len(bugs) = 1
        /\ (~IsFalsy(failures) /\ Recognised(failures.text) # {})
           => \A n \in 1..Len(bugs) : bugs[n].bug_type # "UNKNOWN"

\* a text of two lines that no family recognises
W_C16 ==
    /\ pc = "classified"
    /\ failures.text = <<Noise, Noise>>
    /\ bugs = <<UnknownRecord>>

\* C17: the records returned by classification have pairwise different keys
\* (normalised file, bug_type, line); every key some family matched is there,
\* and the records are in the order of their first match, families in the
\* order syntax, indentation, import, type, logic, logic-short, lint,
\* type-checker, collection.
C17_KeysUniqueInMatchOrder ==
    pc = "classified" =>
        /\ \A a, b \in 1..Len(bugs) : a < b => KeyOf(bugs[a]) # KeyOf(bugs[b])
        /\ \A j \in Recognised(failures.text) :
            \E n \in 1..Len(bugs) : KeyOf(bugs[n]) = Produced(failures.text[j])
        /\ Recognised(failures.text) # {} =>
            \A a, b \in 1..Len(bugs) :
                a < b => Rank(failures.text, KeyOf(bugs[a]))
                         < Rank(failures.text, KeyOf(bugs[b]))

\* the same module reported by a collection error and, under another absolute
\* path, by an import traceback: one record
W_C17 ==
    /\ pc = "classified"
    /\ failures.text = <<A4, D1>>
    /\ Len(bugs) = 1
    /\ KeyOf(bugs[1]) = K1

\* C15: the oracle's text overwrites the file only if it is non-empty, differs
\* from the original content and (for a .py file) compiles; in every other
\* case (an empty answer, a timeout, an error included) the oracle step
\* reports failure, the bug is Failed and the file content is unchanged.
C15_OracleWriteGuarded ==
    LET c == groq_call
        usable == /\ c.resp.kind = "text"
                  /\ c.resp.text # << >>
                  /\ c.resp.text # c.source
                  /\ c.py => compiles(c.resp.text)
    IN  groq_out.called =>
            /\ groq_out.content # c.source => usable
            /\ ~usable => /\ ~groq_out.fixed
                          /\ groq_out.status = "Failed"
                          /\ groq_out.content = c.source

\* the ids in the ring, the ids yielded on the stream, and the id from which
\* the stream follows the bus: beyond its first cursor and beyond what was
\* appended before it was opened
RingIds == {events[n].id : n \in 1..Len(events)}

Yielded == {received[n] : n \in 1..Len(received)}

StreamStart == Max(opened.cursor, opened.tail)

\* C18: a stream that polls get_since(cursor) and moves its cursor to the
\* greatest id yielded is yielded ids in strictly increasing order; unless
\* more than max_events events were appended between two of its polls, it has
\* skipped no id up to its cursor; and every event appended while it is open
\* is eventually yielded on it, unless the client disconnects or more than
\* max_events events are appended between two polls.
C18_StreamDelivers ==
    /\ [](\A a, b \in 1..Len(received) : a < b => received[a] < received[b])
    /\ []((rpc # "closed" /\ ~overrun)
          => \A k \in (StreamStart + 1)..cursor : k \in Yielded)
    /\ \A k \in 1..MaxPublish :
        (rpc # "closed" /\ k > StreamStart /\ k \in RingIds)
        ~> (k \in Yielded \/ rpc = "closed" \/ overrun)

\* a stream opened on the empty bus has been yielded more events than the
\* ring holds, evictions included, and has caught up
W_C18 ==
    /\ rpc = "loop"
    /\ ~overrun
    /\ opened = [cursor |-> 0, tail |-> 0]
    /\ Len(received) > max_events
    /\ events # << >>
    /\ cursor = events[Len(events)].id

\* C19: readers, however they interleave and whether they go on polling, stop
\* or disconnect, cannot block the run thread: every publish and every
\* StatusManager operation it starts completes (under fair scheduling), no
\* thread holds the StatusManager mutex and the EventBus mutex at once, and a
\* thread outside an operation holds neither.
C19_WriterNeverBlocked ==
    /\ [](\A t \in Threads : ~(bus_lock = t /\ sm_lock = t))
    /\ [](\A t \in Threads :
            tpc[t] \in {"idle", "gone"} => bus_lock # t /\ sm_lock # t)
    /\ (tpc["run"] = "waiting") ~> (tpc["run"] = "idle")

\* the run thread waits for the bus mutex, which a reader holds, after
\* another reader has disconnected
W_C19 ==
    /\ tpc["run"] = "waiting"
    /\ top["run"] = "publish"
    /\ bus_lock = "r1"
    /\ tpc["r2"] = "gone"

\* C20: every read and write of StatusManager._state and of the step timeline
\* happens with the StatusManager mutex held by the accessing thread, and a
\* request context gets the step timeline only as a copy, never the live list.
C20_AccessUnderLock == access.locked /\ ~access.live

\* C21: for a record that is not flagged force_groq, is not UNKNOWN and has a
\* known file, the oracle is invoked if and only if the deterministic strategy
\* reported no change; when the strategy succeeds (a LOGIC record on a line
\* `return cfg[key]`) the outcome is Fixed and the oracle is not invoked.
C21_OracleIffNoChange ==
    \A n \in 1..Len(fix_trace) :
        LET t == fix_trace[n]
            no_change == ~t.raised /\ ~t.det_fixed
        IN  (~t.force_groq /\ t.key[2] # "UNKNOWN" /\ t.key[1] # UnknownFile)
            => /\ t.used_groq <=> no_change
               /\ (t.line_text = "return cfg[key]") =>
                    /\ t.det_fixed
                    /\ t.line_after = "return cfg.get(key)"
               /\ (t.det_fixed /\ pc = "repaired") =>
                    /\ ~t.used_groq
                    /\ new_fixes[n].status = "Fixed"

\* a call that returned, with a LOGIC record fixed by its strategy on a
\* direct-indexing return and a record that went to the oracle
W_C21 ==
    /\ pc = "repaired"
    /\ \E n, m \in 1..Len(fix_trace) :
        /\ ~fix_trace[n].force_groq
        /\ fix_trace[n].key[2] = "LOGIC"
        /\ fix_trace[n].line_text = "return cfg[key]"
        /\ ~fix_trace[n].used_groq
        /\ new_fixes[n].status = "Fixed"
        /\ ~fix_trace[m].force_groq
        /\ fix_trace[m].det_invoked
        /\ fix_trace[m].used_groq

\* the keys the texts of Spec give rise to
RunKeys == {K1, K2, KU}

\* the number of Failed statuses at the end of h
RECURSIVE TrailingFailed(_)
TrailingFailed(h) ==
    IF h = << >> \/ Last(h) # "Failed" THEN 0
    ELSE 1 + TrailingFailed(SubSeq(h, 1, Len(h) - 1))

Min(a, b) == IF a <= b THEN a ELSE b

\* the step of an iteration that counts its outcomes (orchestrator.py:137-144)
CountingStep == pc = "fix" /\ pc' = "commit"

\* C22: the failure counter of a key is its number of consecutive Failed
\* outcomes since the run started or the key was last Fixed (absent = 0): the
\* map is empty when a run starts, an iteration adds one for a Failed outcome,
\* removes the entry for a Fixed one and leaves the keys it has no outcome for
\* unchanged, and nothing else writes the map.
C22_CounterIsFailStreak ==
    /\ [](\A K \in RunKeys :
            Min(Get(bug_fail_counts, K, 0), 2)
                = TrailingFailed(Get(last_outcomes, K, << >>)))
    /\ [][/\ pc' = "clone" => bug_fail_counts' = EmptyDict
          /\ CountingStep =>
                \A K \in RunKeys :
                    LET outs == {n \in 1..Len(new_fixes') : KeyOf(new_fixes'[n]) = K}
                    IN  /\ Cardinality(outs) <= 1
                        /\ \A n \in outs :
                            IF new_fixes'[n].status = "Failed"
                            THEN /\ K \in DOMAIN bug_fail_counts'
                                 /\ bug_fail_counts'[K] = Get(bug_fail_counts, K, 0) + 1
                            ELSE K \notin DOMAIN bug_fail_counts'
                        /\ outs = {} =>
                            /\ K \in DOMAIN bug_fail_counts' <=> K \in DOMAIN bug_fail_counts
                            /\ Get(bug_fail_counts', K, 0) = Get(bug_fail_counts, K, 0)
          /\ (pc' # "clone" /\ ~CountingStep) => bug_fail_counts' = bug_fail_counts
          /\ DOMAIN bug_fail_counts' \subseteq RunKeys]_vars

\* after an iteration: one key failed twice in a row, another was fixed after
\* a failure and has no counter
W_C22 ==
    /\ pc = "commit"
    /\ \E K \in RunKeys, J \in RunKeys :
        /\ Get(bug_fail_counts, K, 0) = 2
        /\ last_outcomes[K] = <<"Failed", "Failed">>
        /\ Get(last_outcomes, J, << >>) = <<"Failed", "Fixed">>
        /\ J \notin DOMAIN bug_fail_counts

\* C23: after the fixing step of an iteration, fixes_applied of the
\* StatusManager is the number of Fixed outcomes of all iterations of the run
\* so far, and failures is the number of records classified in this iteration.
C23_FixesAppliedCumulative ==
    pc = "commit" =>
        /\ sm_state["fixes_applied"] = total_fixes + NumFixed(new_fixes)
        /\ sm_state["failures"] = Len(bugs)

\* what a pass whose set-up failed or whose type check or tests timed out is
\* recorded as
FailedPasses == {"setup", "timeout"}

\* the same, with a pass in which only the lint command timed out
TroubledPasses == FailedPasses \cup {"lint_timeout"}

\* the run had test passes, all of the kinds S, no call of the run body
\* raised, and the body is over
EndedAfterOnly(S) ==
    /\ pc = "finally"
    /\ ~raised
    /\ passes # << >>
    /\ \A k \in 1..Len(passes) : passes[k] \in S

\* what the claim says of a run whose passes of the kinds S are the troubled
\* ones
TroubleDoesNotEndRun(S) ==
    /\ Len(passes) = Len(timeline)
    /\ \A k \in 1..Len(passes) :
            passes[k] \in S => timeline[k] = [run |-> k, status |-> "FAILED"]
    /\ (pc = "detect" /\ Last(passes) \in S) =>
            /\ ~IsFalsy(failures)
            /\ status.state = "RUNNING"
            /\ (\A n \in 1..Len(failures.text) : failures.text[n].family = "noise")
                    => parse(failures) = <<UnknownRecord>>
    /\ (pc = "fix" /\ Last(passes) \in S) => bugs # << >>
    /\ (pc = "fix" /\ Last(passes) = "setup") => bugs = <<UnknownRecord>>
    /\ (pc = "commit" /\ Last(passes) \in S) => status.state = "RUNNING"
    /\ EndedAfterOnly(S) =>
            /\ status.state = "COMPLETED"
            /\ Len(timeline) = retry_limit

Steps ==
    LET started == SelectSeq(sm_timeline, LAMBDA x : x.status = "In-Progress")
    IN  [k \in 1..Len(started) |-> started[k].step]

\* how many of the first k steps of st are the step named
CountStep(st, name, k) == Cardinality({j \in 1..k : st[j] = name})

\* the steps that may follow a step
StepsAfter(step) ==
    CASE step = "Cloning" -> {"Testing", "Completed"}
      [] step = "Testing" -> {"Bug Detection", "Completed"}
      [] step = "Bug Detection" -> {"Fixing"}
      [] step = "Fixing" -> {"Commit"}
      [] step = "Commit" -> {"Testing", "Completed"}
      [] OTHER -> {}

IterationSteps == {"Testing", "Bug Detection", "Fixing", "Commit"}

\* C25: the steps of a run are Cloning, then per iteration Testing and, only
\* when the pass failed, Bug Detection, Fixing, Commit, in this order; the
\* iteration numbers are 1, 2, ..., never decrease and never exceed
\* total_iterations; the Completed step and the COMPLETED state are set only
\* after the results were persisted and the working tree archived.
C25_StepsInOrder ==
    /\ [](LET st == Steps
          IN  /\ st # << >> => st[1] = "Cloning"
              /\ \A k \in 2..Len(st) : st[k] \in StepsAfter(st[k - 1])
              /\ \A k \in 1..Len(st) :
                    /\ st[k] = "Bug Detection" =>
                            timeline[CountStep(st, "Testing", k)].status = "FAILED"
                    /\ (st[k] = "Completed" /\ k > 1 /\ st[k - 1] = "Testing") =>
                            Last(timeline).status = "PASSED"
              /\ sm_state["current_step"] \in IterationSteps =>
                    /\ sm_state["iteration"] = CountStep(st, "Testing", Len(st))
                    /\ sm_state["iteration"] >= 1
                    /\ sm_state["iteration"] <= sm_state["total_iterations"]
              /\ sm_state["current_step"] = "Cloning" => sm_state["iteration"] = 0
              /\ (\/ sm_state["current_step"] = "Completed"
                  \/ sm_state["state"] = "COMPLETED"
                  \/ status.state = "COMPLETED") =>
                    /\ Last(st) = "Completed"
                    /\ sm_state["state"] = "COMPLETED"
                    /\ status.state = "COMPLETED"
                    /\ sm_state["iteration"] = Len(timeline)
                    /\ calls.generate = 1
                    /\ calls.archive_repo = 1
                    /\ pc = "finally" => results = Summary)
    /\ [][pc' # "clone" => sm_state'["iteration"] >= sm_state["iteration"]]_vars

\* a run of two iterations, the first failed and committed, the second
\* passed, that is Completed
W_C25 ==
    /\ Steps = <<"Cloning", "Testing", "Bug Detection", "Fixing", "Commit",
                 "Testing", "Completed">>
    /\ sm_state["state"] = "COMPLETED"
    /\ sm_state["iteration"] = 2

\* the positions of the run body after repository acquisition returned
AfterClone == {"branch", "test", "detect", "fix", "commit", "finish"}

\* C26: the removal of the working copy is attempted exactly once at the end
\* of every run whose acquisition returned a path, COMPLETED or FAILED, and
\* only after the terminal state was set; an error of the cleanup changes
\* neither the state nor the error message and leaves run with nothing in
\* flight that was not in flight before.
C26_CleanupOnceAtEnd ==
    /\ [](/\ pc \in AfterClone => path # ""
          /\ pc \in AfterClone \cup {"clone", "finally", "cleanup"} =>
                calls.cleanup_repo = 0
          /\ pc = "cleanup" =>
                /\ status.state \in Terminal
                /\ sm_state["state"] \in Terminal
          /\ calls.cleanup_raised <= calls.cleanup_repo
          /\ calls.cleanup_repo <= 1)
    /\ [][pc = "cleanup" =>
            /\ calls'.cleanup_repo = IF path # "" THEN 1 ELSE 0
            /\ status' = status
            /\ sm_state' = sm_state
            /\ exc' = exc
            /\ pc' = "returned"]_vars

\* a run that ended FAILED with its error message, and one that ended
\* COMPLETED, after a cleanup that raised
W_C26 ==
    /\ pc = "returned"
    /\ calls.cleanup_repo = 1
    /\ calls.cleanup_raised = 1
    /\ status = [state |-> "FAILED", error |-> "boom"]
    /\ results # EmptyDict

\* a step in which a test pass returned
PassReturned == pc = "test" /\ pc' \in {"detect", "finish"}

\* the entries of the run timeline are numbered 1..len
Numbered ==
    \A k \in 1..Len(timeline) :
        /\ timeline[k].run = k
        /\ timeline[k].status \in {"PASSED", "FAILED"}

\* the run timeline is emptied when a run starts, is extended by one entry
\* when a test pass returned and is otherwise left alone
TimelineStep ==
    /\ pc' = "clone" => timeline' = << >>
    /\ PassReturned =>
        /\ Len(timeline') = Len(timeline) + 1
        /\ SubSeq(timeline', 1, Len(timeline)) = timeline
    /\ (pc' # "clone" /\ ~PassReturned) => timeline' = timeline

InRun == pc \notin {"idle", "returned"}

\* C27 as stated: the run timeline is empty at the start of a run, grows by
\* one entry per test pass and is not modified otherwise, its k-th entry has
\* run = k, and its length never exceeds retry_limit.
C27_TimelineWithinRetryLimit ==
    /\ [](Numbered /\ (InRun => Len(timeline) <= retry_limit))
    /\ [][TimelineStep]_vars

\* C27, amended: the same, the length never exceeding the number of
\* iterations of range(retry_limit), which is 0 for a negative retry_limit.
C27_TimelineWithinIterations ==
    /\ [](Numbered /\ (InRun => Len(timeline) <= Max(retry_limit, 0)))
    /\ [][TimelineStep]_vars

\* a second run, after its second test pass, the run before it having left
\* a timeline
W_C27 ==
    /\ pc = "detect"
    /\ retry_limit = 2
    /\ Len(timeline) = 2
    /\ timeline[2] = [run |-> 2, status |-> "FAILED"]
    /\ results # EmptyDict

\* what the caller reads from the dict it was returned: the entries of its
\* list are the entry objects as they are now
SnapNow ==
    [st |-> snap.st,
     tl |-> IF snap.shared /\ Len(sm_timeline) >= Len(snap.tl)
            THEN [k \in 1..Len(snap.tl) |-> sm_timeline[k]]
            ELSE snap.tl]

\* C28: what snapshot() returned is the status record and the step timeline
\* as they were at one instant, and no later operation of the run thread
\* (set_step, mark_step, update_counts, set_state, set_branch, reset) changes
\* it, under any interleaving.
C28_SnapshotIsFrozenCopy ==
    /\ [](snap.held =>
            /\ snap.tl = snap.tl_seen
            /\ SnapNow = [st |-> snap.st, tl |-> snap.tl])
    /\ [][(snap.held /\ snap'.held) =>
            (snap'.st = snap.st /\ snap'.tl = snap.tl)]_vars

\* a snapshot taken during a run and still as it was after a set_step, an
\* update of the record and a reset
W_C28 ==
    /\ snap.held
    /\ snap.tl # << >>
    /\ ~snap.shared
    /\ sm_timeline # snap.tl
    /\ sm_state # snap.st
    /\ wdone = MaxSnapOps

\* the whole remainder of a path after its first workspace/repo/ or, failing
\* that, after its first /repo/; the path itself when it has neither
Remainder(p) ==
    IF RepoAt(p, "workspace") # 0
    THEN SubSeq(p, RepoAt(p, "workspace") + 1, Len(p))
    ELSE IF RepoAt(p, "") # 0 THEN SubSeq(p, RepoAt(p, "") + 1, Len(p))
    ELSE p

\* C29: the file of a record is the whole remainder R of the diagnostic's
\* path P + "workspace/repo/" + R or P + "/repo/" + R, also when R contains a
\* further /repo/ segment, and the path itself when it has no such segment.
C29_FileIsWholeRemainder ==
    (pc = "classified" /\ ~failures.none) =>
        \A k \in 1..Len(failures.text) :
            LET d == failures.text[k]
            IN  d.family # "noise" =>
                    \E n \in 1..Len(bugs) :
                        /\ bugs[n].file = Remainder(d.file)
                        /\ bugs[n].bug_type = FamilyType(d)

\* C30: while the state is RUNNING no snapshot carries an error field, also
\* in a run that follows a run which ended FAILED with an error.
C30_RunningHasNoError ==
    sm_state["state"] = "RUNNING" => "error" \notin DOMAIN snapshot

\* C31: the fix accumulator holds at most one entry per key, the index maps
\* every recorded key to the position of the entry with that key, index and
\* accumulator have the same size, and within a run the accumulator never
\* shrinks and no entry changes position.
C31_AccumulatorIndexed ==
    /\ [](/\ \A m, n \in 1..Len(fixes) :
                KeyOf(fixes[m]) = KeyOf(fixes[n]) => m = n
          /\ DOMAIN fix_index = {KeyOf(fixes[n]) : n \in 1..Len(fixes)}
          /\ \A n \in 1..Len(fixes) : fix_index[KeyOf(fixes[n])] = n - 1
          /\ Cardinality(DOMAIN fix_index) = Len(fixes))
    /\ [][pc' # "clone" =>
            /\ Len(fixes') >= Len(fixes)
            /\ \A n \in 1..Len(fixes) : KeyOf(fixes'[n]) = KeyOf(fixes[n])]_vars

\* two entries in the accumulator after two iterations of two records each:
\* the second iteration replaced both entries in place
W_C31 ==
    /\ Len(fixes) = 2
    /\ Len(timeline) = 2
    /\ total_failures = 4
    /\ total_commits = 2

\* the ids of a list of events
IdsOf(evs) == {evs[n].id : n \in 1..Len(evs)}

\* C32: the start of a run resets neither the ring nor the id counter: ids
\* keep increasing across the runs of the process, and a reader that calls
\* get_since with a cursor it got before a run is returned only events with a
\* greater id, published after the cursor, and no event of the new run has
\* an id at or below the cursor.
C32_BusOutlivesRuns ==
    /\ [](/\ \A n \in 1..Len(events) : events[n].id < next_id
          /\ \A m, n \in 1..Len(events) : m < n => events[m].id < events[n].id
          /\ \A c \in 0..(next_id - 1) :
                IdsOf(get_since(events, c)) = {k \in IdsOf(events) : k > c})
    /\ [][/\ next_id' >= next_id
          /\ IdsOf(events') \ IdsOf(events) \subseteq next_id..(next_id' - 1)
          /\ \A c \in 0..(next_id - 1) :
                \A k \in IdsOf(get_since(events', c)) \ IdsOf(get_since(events, c)) :
                    k >= next_id /\ k > c
          /\ (pc \in {"idle", "returned"} /\ pc' = "clone") =>
                events' = events /\ next_id' = next_id]_vars

\* the second run of the process has published: the ring holds the event of
\* the first run and the one of the second, and a reader whose cursor is the
\* id of the first is returned the second alone
W_C32 ==
    /\ budget = MaxRunsBudget - 2
    /\ pc = "branch"
    /\ IdsOf(events) = {1, 2}
    /\ get_since(events, 1) = <<[id |-> 2, type |-> "log"]>>

\* acquisition and branching of the last run returned
CloneDone ==
    \E n \in 1..Len(sm_timeline) :
        sm_timeline[n] = [step |-> "Clone", status |-> "Done"]

\* no test pass, classification, fix or commit in this run, and nothing in
\* the run timeline and the fix accumulator
NoIterations ==
    /\ calls.run_tests = 0
    /\ calls.parse = 0
    /\ calls.apply_fixes = 0
    /\ calls.commit_push = 0
    /\ timeline = << >>
    /\ fixes = << >>

\* the summary of a run without iterations is persisted and the run COMPLETED
EndedEmpty ==
    /\ calls.generate = 1
    /\ results # EmptyDict
    /\ results.iterations = 0
    /\ results.final_status = "NO_RUNS"
    /\ results.retry_limit = sm_state["total_iterations"]
    /\ results.total_failures = 0
    /\ status.state = "COMPLETED"
    /\ snapshot.state = "COMPLETED"

====
